---- MODULE Spec2Model ----
(***************************************************************************)
(* toolz.functoolz.curry and the call classifier it consults.              *)
(*                                                                         *)
(* The state is one object a client holds (self: a curry, or a             *)
(* functools.partial about to be wrapped), the operation it last performed *)
(* on it (op) and what that operation gave back (out).  Objects are values *)
(* of their fields; an object that refers to another object (a partial     *)
(* wrapping a curry) holds that object's fields nested in its func.        *)
(***************************************************************************)
EXTENDS Integers, Sequences, FiniteSets, TLC

VARIABLES
    self,   \* the object the client holds
    op,     \* the last operation and its inputs
    out     \* what the last operation returned or raised

vars == <<self, op, out>>

\* TLC keeps the fields of a record in the order in which their names first
\* occur; every record below is written in this order, so that no record is
\* reordered while two workers read it
FieldOrder ==
    \A name, answer, args, attr, body, bound, cache, calls, chunksize, cls, count, default, depth, eq, exc, fn, fresh, func, has_default,
       has_unknown_args, hash, heap, invoked, is_decorated, key, keywords, kind, known,
       kwargs, ne, obj, ok, other, params, partial, pc, required, rest, returned, seq, seqs, sigspec, tag,
       userdict, val, valid, varargs
       \in {} : TRUE

----------------------------------------------------------------------------
(* Bounds of the model *)

\* most positional arguments one object holds
MaxArgs == 3
\* most positional arguments one operation supplies
MaxCallArgs == 1
\* most keyword arguments one operation supplies
MaxCallKw == 1
\* most positional and keyword arguments of a call that is classified, and
\* most positional arguments added to one to complete it
MaxBindArgs == 3
MaxBindKw == 2
MaxExtraArgs == 3
\* most positional arguments of a curry that is hashed
MaxHashArgs == 2
\* hash values are taken modulo this
HashMod == 64
\* the argument values the client passes
Values == {1, 2}
\* Python's None where an object is expected (curry.__get__'s instance)
NoneVal == 0
KwNames == {"b", "c"}

RECURSIVE SeqsUpTo(_, _)
SeqsUpTo(S, n) ==
    IF n = 0 THEN {<<>>}
    ELSE LET shorter == SeqsUpTo(S, n - 1)
         IN shorter \cup {Append(s, v) : s \in {t \in shorter : Len(t) = n - 1}, v \in S}

\* keyword dicts: finite functions from names to values; <<>> is the empty dict
KwValues(n) == IF n = "b" THEN {1} ELSE Values
KwDicts(n) ==
    UNION {{d \in [D -> Values] : \A k \in D : d[k] \in KwValues(k)} :
             D \in {E \in SUBSET KwNames : Cardinality(E) <= n}}

ArgInputs == SeqsUpTo(Values, MaxCallArgs)
KwInputs == KwDicts(MaxCallKw)

----------------------------------------------------------------------------
(* Signatures: inspect.Parameter kinds and the functions under test *)

POSITIONAL_ONLY == "POSITIONAL_ONLY"
POSITIONAL_OR_KEYWORD == "POSITIONAL_OR_KEYWORD"
VAR_POSITIONAL == "VAR_POSITIONAL"
KEYWORD_ONLY == "KEYWORD_ONLY"
VAR_KEYWORD == "VAR_KEYWORD"

Param(name, kind, has_default) ==
    [name |-> name, has_default |-> has_default, kind |-> kind]

\* def f(a, b)
f_params ==
    <<Param("a", POSITIONAL_OR_KEYWORD, FALSE),
      Param("b", POSITIONAL_OR_KEYWORD, FALSE)>>

\* def foo(a, b, c=1)
foo_params ==
    <<Param("a", POSITIONAL_OR_KEYWORD, FALSE),
      Param("b", POSITIONAL_OR_KEYWORD, FALSE),
      Param("c", POSITIONAL_OR_KEYWORD, TRUE)>>

\* make_func('x, *args, y=1'), with x and y written a and c
fv_params ==
    <<Param("a", POSITIONAL_OR_KEYWORD, FALSE),
      Param("args", VAR_POSITIONAL, FALSE),
      Param("c", KEYWORD_ONLY, TRUE)>>

Funcs == {"f", "foo", "fv"}

\* make_func('x, *, y'), with x and y written a and c
kwonly_params ==
    <<Param("a", POSITIONAL_OR_KEYWORD, FALSE),
      Param("c", KEYWORD_ONLY, FALSE)>>

\* def posonly(a, b=1, /, c=1): the POSITIONAL_ONLY kind that
\* num_required_args counts
posonly_params ==
    <<Param("a", POSITIONAL_ONLY, FALSE),
      Param("b", POSITIONAL_ONLY, TRUE),
      Param("c", POSITIONAL_OR_KEYWORD, TRUE)>>

\* def g(*args, **kwargs)
g_params ==
    <<Param("args", VAR_POSITIONAL, FALSE),
      Param("kwargs", VAR_KEYWORD, FALSE)>>

\* make_func('x, y=1, **kwargs'), with x and y written a and c
varkw_params ==
    <<Param("a", POSITIONAL_OR_KEYWORD, FALSE),
      Param("c", POSITIONAL_OR_KEYWORD, TRUE),
      Param("kwargs", VAR_KEYWORD, FALSE)>>

\* lambda x: False of test_memoize_key_signature, with x written a
unary_params == <<Param("a", POSITIONAL_OR_KEYWORD, FALSE)>>

\* the callables whose signature inspect.signature gives
Introspectable == Funcs \cup {"kwonly", "posonly", "g", "varkw"}
\* callables without one: RaisesValueError() of test_is_valid_py3, whose
\* __signature__ raises ValueError, and a function whose __signature__ was
\* set to 34, for which inspect.signature raises TypeError
Opaque == {"RaisesValueError", "signature34"}

\* the parameters a function was defined with
Parameters(fn) ==
    CASE fn = "f" -> f_params
      [] fn = "foo" -> foo_params
      [] fn = "fv" -> fv_params
      [] fn = "kwonly" -> kwonly_params
      [] fn = "posonly" -> posonly_params
      [] fn = "g" -> g_params
      [] fn = "varkw" -> varkw_params
      [] fn = "unary" -> unary_params

----------------------------------------------------------------------------
(* References and objects *)

NoObj == [kind |-> "none"]
FnRef(fn) == [name |-> fn, obj |-> NoObj, tag |-> "fn"]
ObjRef(o) == [name |-> "", obj |-> o, tag |-> "obj"]

NoSig == [known |-> FALSE, params |-> <<>>]
SomeSig(params) == [known |-> TRUE, params |-> params]

\* kwargs update: the right-hand dict wins on a repeated key
Update(d, kwargs) ==
    [n \in DOMAIN d \cup DOMAIN kwargs |->
        IF n \in DOMAIN kwargs THEN kwargs[n] ELSE d[n]]

----------------------------------------------------------------------------
(* Argument binding *)

IsPositional(p) == p.kind \in {POSITIONAL_ONLY, POSITIONAL_OR_KEYWORD}
HasKind(params, kind) == \E i \in DOMAIN params : params[i].kind = kind

\* The interpreter's own binding of a call f(*args, **kwargs) to f's
\* parameters: TRUE when the body is entered, FALSE when the call mechanism
\* raises TypeError before it.
call_binds(params, args, kwargs) ==
    LET pos == {i \in DOMAIN params : IsPositional(params[i])}
        byPosition == {i \in pos : i <= Len(args)}
        byKeyword == {i \in DOMAIN params :
                        /\ params[i].kind \in {POSITIONAL_OR_KEYWORD, KEYWORD_ONLY}
                        /\ params[i].name \in DOMAIN kwargs}
        named == {params[i].name : i \in byKeyword}
    IN  /\ Len(args) > Cardinality(pos) => HasKind(params, VAR_POSITIONAL)
        /\ byPosition \cap byKeyword = {}
        /\ DOMAIN kwargs \subseteq named \/ HasKind(params, VAR_KEYWORD)
        /\ \A i \in DOMAIN params :
              \/ params[i].kind \in {VAR_POSITIONAL, VAR_KEYWORD}
              \/ params[i].has_default
              \/ i \in byPosition \cup byKeyword

BindFail == [ok |-> FALSE, rest |-> 0]
BindOk(rest) == [ok |-> TRUE, rest |-> rest]

\* inspect.Signature._bind, its loop over the positional arguments: n
\* arguments and n parameters are consumed.  Gives whether the loop ended
\* without TypeError and the index of the first parameter left for the
\* keyword loop.
RECURSIVE bind_positional(_, _, _, _, _)
bind_positional(params, args, kwargs, partial, n) ==
    IF n = Len(args)
    THEN IF n = Len(params) THEN BindOk(n + 1)
         ELSE LET param == params[n + 1]
              IN  IF param.kind = VAR_POSITIONAL THEN BindOk(n + 2)
                  ELSE IF param.name \in DOMAIN kwargs
                  THEN IF param.kind = POSITIONAL_ONLY THEN BindFail
                       ELSE BindOk(n + 1)
                  ELSE IF param.kind = VAR_KEYWORD \/ param.has_default
                  THEN BindOk(n + 1)
                  ELSE IF partial THEN BindOk(n + 1) ELSE BindFail
    ELSE IF n = Len(params) THEN BindFail
         ELSE LET param == params[n + 1]
              IN  IF param.kind \in {VAR_KEYWORD, KEYWORD_ONLY} THEN BindFail
                  ELSE IF param.kind = VAR_POSITIONAL THEN BindOk(n + 2)
                  ELSE IF param.name \in DOMAIN kwargs /\ param.kind # POSITIONAL_ONLY
                  THEN BindFail
                  ELSE bind_positional(params, args, kwargs, partial, n + 1)

\* inspect.Signature._bind, its loop over the remaining parameters and the
\* final check of the keywords no parameter took
bind_keywords(params, kwargs, partial, rest) ==
    LET left == {i \in DOMAIN params :
                    /\ i >= rest
                    /\ params[i].kind \notin {VAR_KEYWORD, VAR_POSITIONAL}}
        popped == {params[i].name : i \in {j \in left : params[j].name \in DOMAIN kwargs}}
        kwargs_param == \E i \in DOMAIN params : i >= rest /\ params[i].kind = VAR_KEYWORD
    IN  /\ \A i \in left :
              IF params[i].name \in DOMAIN kwargs
              THEN params[i].kind # POSITIONAL_ONLY
              ELSE partial \/ params[i].has_default
        /\ (DOMAIN kwargs \ popped) # {} => kwargs_param

\* Signature.bind (partial = FALSE) and Signature.bind_partial (partial =
\* TRUE): TRUE when no TypeError is raised
sig_bind(params, args, kwargs, partial) ==
    LET r == bind_positional(params, args, kwargs, partial, 0)
    IN  r.ok /\ bind_keywords(params, kwargs, partial, r.rest)

----------------------------------------------------------------------------
(* The call classifier *)

Tri(b) == IF b THEN "True" ELSE "False"

\* inspect.signature(func): the signature, or the exception it raises
signature_raises(fn) ==
    CASE fn = "RaisesValueError" -> "ValueError"
      [] fn = "signature34" -> "TypeError"
      [] OTHER -> "none"
inspect_signature(fn) ==
    IF signature_raises(fn) = "none" THEN SomeSig(Parameters(fn)) ELSE NoSig

\* _sigs.signature_or_spec(func)
signature_or_spec(fn) == inspect_signature(fn)

\* _sigs.signatures, the registry of builtins: none of the callables here is
\* in it
signatures == {}
\* the registry's answer to a question about func (_sigs._is_valid_args and
\* the like): None for a callable it does not know
builtin_func(fn) == "None"

\* _has_signature_get
_has_signature_get(fn) == fn \in signatures

\* _check_sigspec, the signature it returns: the one given, or the one
\* inspect.signature gives; not known when that raised
_check_sigspec(sigspec, fn) ==
    IF sigspec.known THEN sigspec ELSE inspect_signature(fn)

\* _check_sigspec that answers None however inspect.signature failed
_check_sigspec_rv_none(fn) == "None"

\* _check_sigspec, the answer it returns in place of a signature when
\* inspect.signature raised
_check_sigspec_rv(fn) ==
    IF signature_raises(fn) = "ValueError" THEN builtin_func(fn)
    ELSE IF _has_signature_get(fn) THEN builtin_func(fn)
    ELSE "False"

\* num_required_args that counts every parameter without a default
num_required_args_all_kinds(fn, sigspec) ==
    LET _sigspec == _check_sigspec(sigspec, fn)
    IN  IF ~_sigspec.known THEN _check_sigspec_rv(fn)
        ELSE Cardinality({i \in DOMAIN _sigspec.params :
                             /\ ~_sigspec.params[i].has_default
                             /\ _sigspec.params[i].kind \notin {VAR_POSITIONAL, VAR_KEYWORD}})

num_required_args(fn, sigspec) ==
    LET _sigspec == _check_sigspec(sigspec, fn)
        params == _sigspec.params
    IN  IF ~_sigspec.known THEN _check_sigspec_rv(fn)
        ELSE Cardinality({i \in DOMAIN params :
                             ~params[i].has_default /\ IsPositional(params[i])})

has_varargs(fn, sigspec) ==
    LET _sigspec == _check_sigspec(sigspec, fn)
    IN  IF ~_sigspec.known THEN _check_sigspec_rv(fn)
        ELSE Tri(HasKind(_sigspec.params, VAR_POSITIONAL))

has_keywords(fn, sigspec) ==
    LET _sigspec == _check_sigspec(sigspec, fn)
        params == _sigspec.params
    IN  IF ~_sigspec.known THEN _check_sigspec_rv(fn)
        ELSE Tri(\E i \in DOMAIN params :
                    \/ params[i].has_default
                    \/ params[i].kind \in {KEYWORD_ONLY, VAR_KEYWORD})

\* is_valid_args that lets missing arguments pass, as is_partial_args does
is_valid_args_partial(fn, args, kwargs, sigspec) ==
    Tri(sig_bind(_check_sigspec(sigspec, fn).params, args, kwargs, TRUE))

\* is_valid_args that does not ask for the keyword-only parameters
is_valid_args_lenient(fn, args, kwargs, sigspec) ==
    LET params == _check_sigspec(sigspec, fn).params
    IN  Tri(sig_bind([i \in DOMAIN params |->
                        IF params[i].kind = KEYWORD_ONLY
                        THEN Param(params[i].name, KEYWORD_ONLY, TRUE)
                        ELSE params[i]],
                     args, kwargs, FALSE))

is_valid_args(fn, args, kwargs, sigspec) ==
    LET _sigspec == _check_sigspec(sigspec, fn)
    IN  IF ~_sigspec.known THEN _check_sigspec_rv(fn)
        ELSE Tri(sig_bind(_sigspec.params, args, kwargs, FALSE))

\* is_partial_args that takes partial to mean not yet complete
is_partial_args_unfinished(fn, args, kwargs, sigspec) ==
    LET params == _check_sigspec(sigspec, fn).params
    IN  Tri(sig_bind(params, args, kwargs, TRUE) /\ ~sig_bind(params, args, kwargs, FALSE))

\* is_partial_args that accepts any keyword
is_partial_args_any_keyword(fn, args, kwargs, sigspec) ==
    Tri(sig_bind(_check_sigspec(sigspec, fn).params, args, <<>>, TRUE))

is_partial_args(fn, args, kwargs, sigspec) ==
    LET _sigspec == _check_sigspec(sigspec, fn)
    IN  IF ~_sigspec.known THEN _check_sigspec_rv(fn)
        ELSE Tri(sig_bind(_sigspec.params, args, kwargs, TRUE))

----------------------------------------------------------------------------
(* functools.partial and the curry object *)

\* hasattr func, args, keywords and args is a tuple: curry and partial objects
is_partial_function(func) ==
    func.tag = "obj" /\ func.obj.kind \in {"curry", "partial"}

\* functools.partial(func, *args, **kwargs); a partial of a partial is merged
partial_new(func, args, kwargs) ==
    IF func.tag = "obj" /\ func.obj.kind = "partial"
    THEN [args |-> func.obj.args \o args,
          func |-> func.obj.func,
          keywords |-> Update(func.obj.keywords, kwargs),
          kind |-> "partial"]
    ELSE [args |-> args, func |-> func, keywords |-> kwargs, kind |-> "partial"]

\* the properties func, args and keywords, of a curry and of a partial
curry_func(c) == IF c.kind = "curry" THEN c.partial.func ELSE c.func
curry_args(c) == IF c.kind = "curry" THEN c.partial.args ELSE c.args
curry_keywords(c) == IF c.kind = "curry" THEN c.partial.keywords ELSE c.keywords

\* curry.__init__ with the outer arguments put first and the inner keywords
\* winning
curry_init_reversed(func, args, kwargs) ==
    LET flat == is_partial_function(func)
        _kwargs == IF flat THEN Update(kwargs, curry_keywords(func.obj)) ELSE kwargs
        _args == IF flat THEN args \o curry_args(func.obj) ELSE args
        _func == IF flat THEN curry_func(func.obj) ELSE func
    IN  [has_unknown_args |-> "None",
         kind |-> "curry",
         partial |-> partial_new(_func, _args, _kwargs),
         sigspec |-> NoSig]

\* curry.__init__: the new object's fields
curry_init(func, args, kwargs) ==
    LET flat == is_partial_function(func)
        _kwargs == IF flat
                   THEN Update(IF DOMAIN curry_keywords(func.obj) # {}
                               THEN curry_keywords(func.obj) ELSE <<>>,
                               kwargs)
                   ELSE kwargs
        _args == IF flat THEN curry_args(func.obj) \o args ELSE args
        _func == IF flat THEN curry_func(func.obj) ELSE func
    IN  [has_unknown_args |-> "None",
         kind |-> "curry",
         partial |-> IF DOMAIN _kwargs # {}
                     THEN partial_new(_func, _args, _kwargs)
                     ELSE partial_new(_func, _args, <<>>),
         sigspec |-> NoSig]

\* what a completed call of fn returns: fn applied to the arguments as bound
\* to its parameters
Result(fn, args, kwargs) ==
    LET params == Parameters(fn)
        byPosition == {i \in DOMAIN params : IsPositional(params[i]) /\ i <= Len(args)}
        names == {params[i].name : i \in byPosition} \cup DOMAIN kwargs
    IN  [bound |-> [n \in names |->
                      IF n \in DOMAIN kwargs THEN kwargs[n]
                      ELSE args[CHOOSE i \in byPosition : params[i].name = n]],
         fn |-> fn,
         rest |-> SubSeq(args, Cardinality(byPosition) + 1, Len(args))]
NoVal == [bound |-> <<>>, fn |-> "", rest |-> <<>>]

BodyOutcomes == {"return", "TypeError", "OtherError"}

\* calling the Python function fn: the call mechanism binds the arguments and
\* raises TypeError, or enters the body, which returns or raises
py_call(fn, args, kwargs, body) ==
    IF call_binds(Parameters(fn), args, kwargs)
    THEN [exc |-> IF body = "return" THEN "none" ELSE body,
          invoked |-> 1,
          val |-> IF body = "return" THEN Result(fn, args, kwargs) ELSE NoVal]
    ELSE [exc |-> "TypeError", invoked |-> 0, val |-> NoVal]

\* curry.call: self._partial(*args, **kwargs)
curry_call(c, args, kwargs, body) ==
    py_call(c.partial.func.name,
            c.partial.args \o args,
            Update(c.partial.keywords, kwargs),
            body)

\* _should_curry's writes with the variadic flag negated
should_curry_cache_inverted(c) ==
    IF ~c.sigspec.known
    THEN LET sigspec == signature_or_spec(curry_func(c).name)
         IN  [c EXCEPT !.sigspec = sigspec,
                       !.has_unknown_args =
                           Tri(has_varargs(curry_func(c).name, sigspec) = "False")]
    ELSE c

\* curry._should_curry, its writes: _sigspec and _has_unknown_args are set on
\* the first failed call
should_curry_cache(c) ==
    IF ~c.sigspec.known
    THEN LET sigspec == signature_or_spec(curry_func(c).name)
         IN  [c EXCEPT !.sigspec = sigspec,
                       !.has_unknown_args =
                           Tri(has_varargs(curry_func(c).name, sigspec) # "False")]
    ELSE c

\* _should_curry without its last test: every call that more arguments could
\* complete is curried
_should_curry_always(c, args, kwargs) ==
    is_partial_args(curry_func(c).name, curry_args(c) \o args,
                    Update(curry_keywords(c), kwargs),
                    should_curry_cache(c).sigspec) # "False"

\* _should_curry with its last test negated: only complete calls are curried
_should_curry_inverted(c, args, kwargs) ==
    LET fn == curry_func(c).name
        _args == curry_args(c) \o args
        _kwargs == Update(curry_keywords(c), kwargs)
        cached == should_curry_cache(c)
    IN  IF is_partial_args(fn, _args, _kwargs, cached.sigspec) = "False" THEN FALSE
        ELSE IF cached.has_unknown_args = "True" THEN TRUE
        ELSE is_valid_args(fn, _args, _kwargs, cached.sigspec) = "True"

\* _should_curry asking for the variadic flag first: a callable that may take
\* more positional arguments is curried whatever the arguments are
_should_curry_varargs_first(c, args, kwargs) ==
    LET fn == curry_func(c).name
        _args == curry_args(c) \o args
        _kwargs == Update(curry_keywords(c), kwargs)
        cached == should_curry_cache(c)
    IN  IF cached.has_unknown_args = "True" THEN TRUE
        ELSE IF is_partial_args(fn, _args, _kwargs, cached.sigspec) = "False" THEN FALSE
        ELSE is_valid_args(fn, _args, _kwargs, cached.sigspec) # "True"

\* curry._should_curry, its answer
_should_curry(c, args, kwargs) ==
    LET fn == curry_func(c).name
        _args == curry_args(c) \o args
        _kwargs == IF DOMAIN curry_keywords(c) # {}
                   THEN Update(curry_keywords(c), kwargs) ELSE kwargs
        cached == should_curry_cache(c)
    IN  IF is_partial_args(fn, _args, _kwargs, cached.sigspec) = "False" THEN FALSE
        ELSE IF cached.has_unknown_args = "True" THEN TRUE
        ELSE IF is_valid_args(fn, _args, _kwargs, cached.sigspec) # "True" THEN TRUE
        ELSE FALSE

\* bind that starts again from the function, dropping what the receiver held
curry_bind_dropping(c, args, kwargs) == curry_init(curry_func(c), args, kwargs)

\* curry.bind: type(self)(self, *args, **kwargs)
curry_bind(c, args, kwargs) == curry_init(ObjRef(c), args, kwargs)

Outcome(kind, obj, val, invoked, fresh) ==
    [eq |-> FALSE, fresh |-> fresh, hash |-> 0, invoked |-> invoked,
     kind |-> kind, ne |-> FALSE, obj |-> obj, val |-> val]
NoOutcome == Outcome("none", NoObj, NoVal, 0, FALSE)

\* __call__ that calls the function a second time before giving up
curry___call___retry(c, args, kwargs, body) ==
    LET r == curry_call(c, args, kwargs, body)
    IN  IF r.exc = "none" THEN Outcome("value", NoObj, r.val, r.invoked, FALSE)
        ELSE IF r.exc = "TypeError" /\ _should_curry(c, args, kwargs)
        THEN Outcome("curry", curry_bind(should_curry_cache(c), args, kwargs),
                     NoVal, r.invoked, TRUE)
        ELSE Outcome(r.exc, NoObj, NoVal,
                     r.invoked + curry_call(c, args, kwargs, body).invoked, FALSE)

\* curry.__call__: what the caller gets
curry___call__(c, args, kwargs, body) ==
    LET r == curry_call(c, args, kwargs, body)
    IN  IF r.exc = "none" THEN Outcome("value", NoObj, r.val, r.invoked, FALSE)
        ELSE IF r.exc = "TypeError"
        THEN IF _should_curry(c, args, kwargs)
             THEN Outcome("curry", curry_bind(should_curry_cache(c), args, kwargs),
                          NoVal, r.invoked, TRUE)
             ELSE Outcome("TypeError", NoObj, NoVal, r.invoked, FALSE)
        ELSE Outcome(r.exc, NoObj, NoVal, r.invoked, FALSE)

\* curry.__call__: the receiver afterwards
curry___call___self(c, args, kwargs, body) ==
    IF curry_call(c, args, kwargs, body).exc = "TypeError"
    THEN should_curry_cache(c) ELSE c

\* bind written as a call: it invokes the function when the arguments suffice
curry_bind_outcome_calling(c, args, kwargs) == curry___call__(c, args, kwargs, "return")

\* curry.bind: what the caller gets
curry_bind_outcome(c, args, kwargs) ==
    Outcome("curry", curry_bind(c, args, kwargs), NoVal, 0, TRUE)

\* curry.__get__
curry___get__(c, instance) ==
    IF instance = NoneVal
    THEN Outcome("curry", c, NoVal, 0, FALSE)
    ELSE Outcome("curry", curry_init(ObjRef(c), <<instance>>, <<>>), NoVal, 0, TRUE)

\* __eq__ that does not look at the keywords
curry___eq___nokeywords(c, other) ==
    /\ other.kind = "curry"
    /\ curry_func(c) = curry_func(other)
    /\ curry_args(c) = curry_args(other)

\* curry.__eq__ and curry.__ne__
curry___eq__(c, other) ==
    /\ other.kind = "curry"
    /\ curry_func(c) = curry_func(other)
    /\ curry_args(c) = curry_args(other)
    /\ curry_keywords(c) = curry_keywords(other)

curry___ne__(c, other) == ~curry___eq__(c, other)

----------------------------------------------------------------------------
(* hash(c) *)

\* the list [] of test_curry_comparable, written 3: a value hash() rejects
Unhashable == {3}
HashValues == Values \cup Unhashable

\* the result of hash(): a number, or TypeError (ok is FALSE)
Hashed(ok, n) == [ok |-> ok, val |-> IF ok THEN n % HashMod ELSE 0]

\* hash of an argument value: an int hashes to itself
hash_value(v) == Hashed(v \notin Unhashable, v)

\* hash of a function object and of a keyword name: fixed per object
hash_name(n) ==
    CASE n = "b" -> 5 [] n = "c" -> 7 [] n = "f" -> 11 [] n = "foo" -> 13
      [] n = "fv" -> 17 [] OTHER -> 19
hash_func(func) ==
    Hashed(TRUE, IF func.tag = "fn" THEN hash_name(func.name) ELSE hash_name(""))

\* hash of a tuple: combines the hashes of its elements in order, and fails
\* when an element's does
RECURSIVE hash_tuple(_)
hash_tuple(hs) ==
    IF hs = <<>> THEN Hashed(TRUE, 1)
    ELSE LET front == hash_tuple(SubSeq(hs, 1, Len(hs) - 1))
             last == hs[Len(hs)]
         IN  Hashed(front.ok /\ last.ok, front.val * 31 + last.val)

\* hash of frozenset(keywords.items()): combines the hashes of the (name,
\* value) tuples in no order
RECURSIVE hash_items(_, _)
hash_items(keywords, names) ==
    IF names = {} THEN Hashed(TRUE, 3)
    ELSE LET n == CHOOSE m \in names : TRUE
             item == hash_tuple(<<Hashed(TRUE, hash_name(n)), hash_value(keywords[n])>>)
             others == hash_items(keywords, names \ {n})
         IN  Hashed(item.ok /\ others.ok, item.val + others.val)

\* curry.__hash__ that hashes the signature cache along with the arguments
curry___hash___with_cache(c) ==
    hash_tuple(<<hash_func(curry_func(c)),
                 hash_tuple([i \in DOMAIN curry_args(c) |-> hash_value(curry_args(c)[i])]),
                 IF DOMAIN curry_keywords(c) # {}
                 THEN hash_items(curry_keywords(c), DOMAIN curry_keywords(c))
                 ELSE Hashed(TRUE, 23),
                 Hashed(TRUE, IF c.sigspec.known THEN 1 ELSE 2)>>)

\* curry.__hash__ that answers 0 for what it cannot hash
curry___hash___suppressing(c) ==
    LET h == curry___hash___with_cache([c EXCEPT !.sigspec = NoSig])
    IN  IF h.ok THEN h ELSE Hashed(TRUE, 0)

\* curry.__hash__: hash((func, args, frozenset(keywords.items()) or None))
curry___hash__(c) ==
    hash_tuple(<<hash_func(curry_func(c)),
                 hash_tuple([i \in DOMAIN curry_args(c) |-> hash_value(curry_args(c)[i])]),
                 IF DOMAIN curry_keywords(c) # {}
                 THEN hash_items(curry_keywords(c), DOMAIN curry_keywords(c))
                 ELSE Hashed(TRUE, 23)>>)

\* hash(c): what the caller gets
curry___hash___outcome(c) ==
    LET h == curry___hash__(c)
    IN  IF h.ok
        THEN [Outcome("hash", NoObj, NoVal, 0, FALSE) EXCEPT !.hash = h.val]
        ELSE Outcome("TypeError", NoObj, NoVal, 0, FALSE)

\* a property that was given a setter
property_fset_setter(attr) == "setter"

\* func, args and keywords are instanceproperty attributes made from a getter
\* alone: fset is None
ReadOnly == {"func", "args", "keywords"}
property_fset(attr) == IF attr \in ReadOnly THEN "None" ELSE "setter"

\* setattr(c, attr, value): property.__set__ raises AttributeError without fset
curry_setattr(c, attr, value) ==
    IF property_fset(attr) = "None" THEN c
    ELSE [c EXCEPT !.partial = [c.partial EXCEPT ![attr] = value]]
curry_setattr_outcome(attr) ==
    IF property_fset(attr) = "None"
    THEN Outcome("AttributeError", NoObj, NoVal, 0, FALSE)
    ELSE NoOutcome

----------------------------------------------------------------------------
(* The client's operations *)

Operation(name, args, kwargs, body, other, attr) ==
    [name |-> name, args |-> args, attr |-> attr, body |-> body,
     kwargs |-> kwargs, other |-> other]

IsCurry(c) == c.kind = "curry"
\* a curry of a Python function: the objects the calls below are made on
IsPlainCurry(c) == IsCurry(c) /\ curry_func(c).tag = "fn"
Fits(c, args) == Len(curry_args(c)) + Len(args) <= MaxArgs

\* the object the client starts from: c = curry(fn, *args, **kwargs) or
\* p = functools.partial(fn, *args, **kwargs)
Init ==
    \E fn \in Funcs, args \in ArgInputs, kwargs \in KwInputs :
        \/ /\ self = curry_init(FnRef(fn), args, kwargs)
           /\ op = Operation("curry", args, kwargs, "none", NoObj, "")
           /\ out = Outcome("curry", self, NoVal, 0, TRUE)
        \/ /\ self = partial_new(FnRef(fn), args, kwargs)
           /\ op = Operation("partial", args, kwargs, "none", NoObj, "")
           /\ out = Outcome("partial", self, NoVal, 0, TRUE)

\* p = functools.partial(c, *args)
WrapPartial(args) ==
    /\ IsPlainCurry(self)
    /\ Fits(self, args)
    /\ self' = partial_new(ObjRef(self), args, <<>>)
    /\ op' = Operation("wrap", args, <<>>, "none", NoObj, "")
    /\ out' = Outcome("partial", self', NoVal, 0, TRUE)

\* curry(c, *args, **kwargs) and curry(p, *args, **kwargs)
CurryFrom(args, kwargs) ==
    /\ Fits(self, args)
    /\ op' = Operation("curry_from", args, kwargs, "none", NoObj, "")
    /\ out' = Outcome("curry", curry_init(ObjRef(self), args, kwargs), NoVal, 0, TRUE)
    /\ UNCHANGED self

\* c(*args, **kwargs); body is what the function's body does when the call
\* enters it
Call(args, kwargs, body) ==
    /\ IsPlainCurry(self)
    /\ Fits(self, args)
    /\ curry_call(self, args, kwargs, body).invoked = 0 => body = "return"
    /\ op' = Operation("call", args, kwargs, body, NoObj, "")
    /\ out' = curry___call__(self, args, kwargs, body)
    /\ self' = curry___call___self(self, args, kwargs, body)

\* c.bind(*args, **kwargs)
Bind(args, kwargs) ==
    /\ IsCurry(self)
    /\ Fits(self, args)
    /\ op' = Operation("bind", args, kwargs, "none", NoObj, "")
    /\ out' = curry_bind_outcome(self, args, kwargs)
    /\ UNCHANGED self

\* c.__get__(instance, owner): attribute access through an instance or a class
Get(instance) ==
    /\ IsCurry(self)
    /\ Fits(self, <<instance>>)
    /\ op' = Operation("get", <<instance>>, <<>>, "none", NoObj, "")
    /\ out' = curry___get__(self, instance)
    /\ UNCHANGED self

\* c == other and c != other
Compare(other) ==
    /\ IsCurry(self)
    /\ op' = Operation("eq", <<>>, <<>>, "none", other, "")
    /\ out' = [Outcome("bool", NoObj, NoVal, 0, FALSE)
                 EXCEPT !.eq = curry___eq__(self, other),
                        !.ne = curry___ne__(self, other)]
    /\ UNCHANGED self

\* the other object is the one the last operation returned
EqReturned ==
    /\ out.kind \in {"curry", "partial"}
    /\ Compare(out.obj)

\* the other object is curry(fn, *c.args, **c.keywords)
EqNew(fn) ==
    /\ IsCurry(self)
    /\ Compare(curry_init(FnRef(fn), curry_args(self), curry_keywords(self)))

\* setattr(c, attr, value)
SetAttr(attr, args, kwargs) ==
    /\ IsCurry(self)
    /\ LET value == CASE attr = "args" -> args
                      [] attr = "keywords" -> kwargs
                      [] OTHER -> FnRef("f")
       IN  /\ op' = Operation("setattr", args, kwargs, "none", NoObj, attr)
           /\ out' = curry_setattr_outcome(attr)
           /\ self' = curry_setattr(self, attr, value)

\* the client goes on with the curry the last operation returned
Adopt ==
    /\ out.kind = "curry"
    /\ out.fresh
    /\ IsPlainCurry(out.obj)
    /\ self' = out.obj
    /\ op' = Operation("adopt", <<>>, <<>>, "none", NoObj, "")
    /\ out' = NoOutcome

Next ==
    \/ \E fn \in Funcs : EqNew(fn)
    \/ \E args \in ArgInputs, kwargs \in KwInputs :
          \/ CurryFrom(args, kwargs)
          \/ Bind(args, kwargs)
          \/ \E body \in BodyOutcomes : Call(args, kwargs, body)
    \/ \E args \in ArgInputs : WrapPartial(args)
    \/ \E attr \in ReadOnly : SetAttr(attr, <<2>>, [k \in {"c"} |-> 2])
    \/ \E instance \in Values \cup {NoneVal} : Get(instance)
    \/ EqReturned
    \/ Adopt

Spec == Init /\ [][Next]_vars

----------------------------------------------------------------------------
(* Hashing and comparing: the client of test_curry_comparable *)

HashArgInputs == SeqsUpTo(HashValues, MaxHashArgs)
HashKwValues(n) == IF n = "b" THEN {1} ELSE HashValues
HashKwInputs ==
    {<<>>} \cup UNION {{[k \in {n} |-> v] : v \in HashKwValues(n)} : n \in KwNames}

\* c = curry(fn, *args, **kwargs), before any call or after a call that
\* consulted _should_curry and left the signature cache written
InitHash ==
    \E fn \in Funcs, args \in HashArgInputs, kwargs \in HashKwInputs, called \in BOOLEAN :
        /\ self = IF called
                  THEN should_curry_cache(curry_init(FnRef(fn), args, kwargs))
                  ELSE curry_init(FnRef(fn), args, kwargs)
        /\ op = Operation("curry", args, kwargs, "none", NoObj, "")
        /\ out = Outcome("curry", self, NoVal, 0, TRUE)

\* hash(c)
Hash ==
    /\ IsCurry(self)
    /\ op' = Operation("hash", <<>>, <<>>, "none", NoObj, "")
    /\ out' = curry___hash___outcome(self)
    /\ UNCHANGED self

NextHash ==
    \/ Hash
    \/ \E args \in ArgInputs, kwargs \in KwInputs : Bind(args, kwargs)
    \/ \E fn \in Funcs : EqNew(fn)
    \/ EqReturned

SpecHash == InitHash /\ [][NextHash]_vars

----------------------------------------------------------------------------
(* Classifying calls: the client of test_inspect_args *)

\* here self is the callable asked about, and out holds the five answers
ClassifyFuncs == Introspectable \cup Opaque
\* the keyword names passed: the parameter names and one no function has
BindNames == {"a", "b", "c", "z"}
BindArgInputs == SeqsUpTo({1}, MaxBindArgs)
BindKwInputs ==
    UNION {[D -> {1}] : D \in {E \in SUBSET BindNames : Cardinality(E) <= MaxBindKw}}

Answers(fn, args, kwargs) ==
    [keywords |-> has_keywords(fn, NoSig),
     kind |-> "answers",
     partial |-> is_partial_args(fn, args, kwargs, NoSig),
     required |-> num_required_args(fn, NoSig),
     valid |-> is_valid_args(fn, args, kwargs, NoSig),
     varargs |-> has_varargs(fn, NoSig)]

InitArgs ==
    \E fn \in ClassifyFuncs :
        /\ self = FnRef(fn)
        /\ op = Operation("def", <<>>, <<>>, "none", NoObj, "")
        /\ out = NoOutcome

\* the five classifiers asked about self and one call of it
Classify(args, kwargs) ==
    /\ op' = Operation("classify", args, kwargs, "none", NoObj, "")
    /\ out' = Answers(self.name, args, kwargs)
    /\ UNCHANGED self

NextArgs == \E args \in BindArgInputs, kwargs \in BindKwInputs : Classify(args, kwargs)

SpecArgs == InitArgs /\ [][NextArgs]_vars

----------------------------------------------------------------------------
(* Serialization: curry.__reduce__, pickle and _restore_curry *)

\* the functions that their module holds decorated, as functoolz holds
\* memoize: the module attribute is curry(fn), and fn is its func
Decorated == {"foo"}

\* the module's namespace: an undecorated function under its name, a
\* decorated one as a curry; mine is the module's own object when the object
\* being serialized is that object
Module(mine) ==
    [n \in Funcs |->
        IF n \in Decorated
        THEN ObjRef(IF mine.kind = "curry" /\ curry_func(mine) = FnRef(n)
                    THEN mine ELSE curry_init(FnRef(n), <<>>, <<>>))
        ELSE FnRef(n)]

StrRef(path) == [name |-> path, obj |-> NoObj, tag |-> "str"]
GlobalRef(n) == [name |-> n, obj |-> NoObj, tag |-> "global"]
ReduceRef(state) == [name |-> "", obj |-> state, tag |-> "reduce"]

\* __init__ copies __qualname__ from func, so a curry has the qualname of the
\* function it is about
qualname(func) ==
    IF func.tag = "fn" THEN func.name
    ELSE IF curry_func(func.obj).tag = "fn" THEN curry_func(func.obj).name
    ELSE ""

State(cls, func, args, keywords, userdict, is_decorated) ==
    [args |-> args, cls |-> cls, func |-> func, is_decorated |-> is_decorated,
     keywords |-> keywords, kind |-> "state", userdict |-> userdict]

\* curry.__reduce__: the state handed to pickle; is_self says that the
\* module's attribute is this very object
curry___reduce__(c, module, is_self) ==
    LET func == curry_func(c)
        name == qualname(func)
        obj == IF name \in DOMAIN module THEN module[name] ELSE FnRef("")
        found == /\ obj.tag = "obj" /\ obj.obj.kind = "curry"
                 /\ curry_func(obj.obj) = func
    IN  State("curry",
              IF found THEN StrRef(name) ELSE func,
              curry_args(c),
              curry_keywords(c),
              [has_unknown_args |-> c.has_unknown_args],
              IF found THEN Tri(is_self) ELSE "None")

\* _restore_curry that builds the new curry without the persisted arguments
_restore_curry_dropping(state, module) ==
    LET obj == IF state.func.tag = "str" THEN module[state.func.name] ELSE NoObj
        func == IF state.func.tag = "str" THEN curry_func(obj.obj) ELSE state.func
    IN  IF state.func.tag = "str" /\ state.is_decorated = "True"
        THEN obj.obj
        ELSE [curry_init(func, <<>>, <<>>)
                 EXCEPT !.has_unknown_args = state.userdict.has_unknown_args]

\* _restore_curry
_restore_curry(state, module) ==
    LET obj == IF state.func.tag = "str" THEN module[state.func.name] ELSE NoObj
        func == IF state.func.tag = "str" THEN curry_func(obj.obj) ELSE state.func
    IN  IF state.func.tag = "str" /\ state.is_decorated = "True"
        THEN obj.obj
        ELSE [curry_init(func, state.args, state.keywords)
                 EXCEPT !.has_unknown_args = state.userdict.has_unknown_args]

\* pickle.dumps(c): the state of __reduce__, with a function written as a
\* reference to its module attribute and a curry written by its own
\* __reduce__
RECURSIVE pickle_dumps(_, _, _)
pickle_dumps(c, module, is_self) ==
    LET state == curry___reduce__(c, module, is_self)
        func == state.func
    IN  [state EXCEPT !.func =
            CASE func.tag = "fn" -> GlobalRef(func.name)
              [] func.tag = "obj" -> ReduceRef(pickle_dumps(func.obj, module, FALSE))
              [] OTHER -> func]

\* pickle.loads(data): every reference looked up, every reduced object
\* restored by _restore_curry
RECURSIVE pickle_loads(_, _)
pickle_loads(data, module) ==
    LET func == data.func
    IN  _restore_curry(
            [data EXCEPT !.func =
                CASE func.tag = "global" -> module[func.name]
                  [] func.tag = "reduce" -> ObjRef(pickle_loads(func.obj, module))
                  [] OTHER -> func],
            module)

\* the client goes on with the curry the last operation returned, whatever
\* its func is
AdoptCurry ==
    /\ out.kind = "curry"
    /\ out.fresh
    /\ out.obj # self
    /\ self' = out.obj
    /\ op' = Operation("adopt", <<>>, <<>>, "none", NoObj, "")
    /\ out' = NoOutcome

\* pickle.loads(pickle.dumps(c)); is_self: c is the module's decorated
\* function itself
Pickle(is_self) ==
    /\ IsCurry(self)
    /\ is_self => /\ IsPlainCurry(self)
                  /\ curry_func(self).name \in Decorated
    /\ LET module == Module(IF is_self THEN self ELSE NoObj)
       IN  /\ op' = Operation("pickle", <<>>, <<>>, "none",
                              pickle_dumps(self, module, is_self), "")
           /\ out' = Outcome("curry", pickle_loads(op'.other, module), NoVal, 0, ~is_self)
    /\ UNCHANGED self

NextPickle ==
    \/ \E is_self \in BOOLEAN : Pickle(is_self)
    \/ \E args \in ArgInputs : CurryFrom(args, <<>>)
    \/ Call(<<>>, <<>>, "return")
    \/ WrapPartial(<<>>)
    \/ AdoptCurry

SpecPickle == Init /\ [][NextPickle]_vars

----------------------------------------------------------------------------
(* memoize *)

\* most positional and keyword arguments of one memoized call, and the
\* number of invocations of the function after which only cached keys are
\* called
MaxMemoArgs == 2
MaxMemoKw == 1
MaxInvocations == 2

\* is_arity(n, func)
is_arity(n, fn, sigspec) ==
    LET _sigspec == _check_sigspec(sigspec, fn)
        num == num_required_args(fn, _sigspec)
        varargs == has_varargs(fn, _sigspec)
        keywords == has_keywords(fn, _sigspec)
    IN  IF ~_sigspec.known THEN _check_sigspec_rv(fn)
        ELSE IF num # n THEN "False"
        ELSE IF varargs = "True" THEN "False"
        ELSE IF keywords = "True" THEN "False"
        ELSE "True"

\* the three default key functions of memoize
Key(kind, args, kwargs) == [args |-> args, kind |-> kind, kwargs |-> kwargs]
NoKey == Key("none", <<>>, <<>>)

\* memoize's choice among them: is_unary, may_have_kwargs, neither
memoize_key(fn) ==
    IF is_arity(1, fn, NoSig) = "True" THEN "unary"
    ELSE IF has_keywords(fn, NoSig) # "False" THEN "kwargs"
    ELSE "args"

\* key(args, kwargs): the key, or the exception the key function raises
key_of(kind, args, kwargs) ==
    CASE kind = "unary" ->
           IF args = <<>> THEN [exc |-> "IndexError", key |-> NoKey]
           ELSE [exc |-> "none", key |-> Key("value", <<args[1]>>, <<>>)]
      [] kind = "kwargs" ->
           IF \E n \in DOMAIN kwargs : ~hash_value(kwargs[n]).ok
           THEN [exc |-> "TypeError", key |-> NoKey]
           ELSE [exc |-> "none", key |-> Key("pair", args, kwargs)]
      [] OTHER -> [exc |-> "none", key |-> Key("tuple", args, <<>>)]

\* hash(k) succeeds: every value inside the key is hashable
key_hashable(k) ==
    /\ \A i \in DOMAIN k.args : hash_value(k.args[i]).ok
    /\ \A n \in DOMAIN k.kwargs : hash_value(k.kwargs[n]).ok

\* the value found in a cache the caller supplied, as True in
\* test_memoize_key_signature
Supplied == [bound |-> <<>>, fn |-> "cache", rest |-> <<>>]

InCache(cache, k) == \E e \in cache : e.key = k
Cached(cache, k) == (CHOOSE e \in cache : e.key = k).val

\* fn_calls of test_memoize, kept per key: how often the function was
\* entered, how often it returned, and what it returned first
NoCalls(k) == [count |-> 0, key |-> k, returned |-> 0, val |-> NoVal]
Calls(calls, k) ==
    IF \E e \in calls : e.key = k THEN CHOOSE e \in calls : e.key = k ELSE NoCalls(k)
Invocations(calls, k) == Calls(calls, k).count
Invoke(calls, k, r) ==
    LET e == Calls(calls, k)
        returns == r.exc = "none"
    IN  {d \in calls : d.key # k} \cup
        {[count |-> e.count + 1,
          key |-> k,
          returned |-> e.returned + (IF returns THEN 1 ELSE 0),
          val |-> IF returns /\ e.returned = 0 THEN r.val ELSE e.val]}

RECURSIVE TotalInvocations(_)
TotalInvocations(calls) ==
    IF calls = {} THEN 0
    ELSE LET e == CHOOSE d \in calls : TRUE
         IN  e.count + TotalInvocations(calls \ {e})

\* memoize(func, cache=cache): the closure memof and what it holds
memoize(fn, cache) ==
    [cache |-> cache, calls |-> {}, func |-> FnRef(fn), key |-> memoize_key(fn),
     kind |-> "memoize"]

\* memof that stores nothing
memof_forgetting(m, args, kwargs, body) ==
    LET k == key_of(m.key, args, kwargs)
        r == py_call(m.func.name, args, kwargs, body)
    IN  IF k.exc # "none" \/ ~key_hashable(k.key) \/ InCache(m.cache, k.key) THEN m
        ELSE [m EXCEPT !.calls = IF r.invoked = 1 THEN Invoke(@, k.key, r) ELSE @]

\* memof(*args, **kwargs): the closure afterwards
memof(m, args, kwargs, body) ==
    LET k == key_of(m.key, args, kwargs)
        r == py_call(m.func.name, args, kwargs, body)
    IN  IF k.exc # "none" \/ ~key_hashable(k.key) \/ InCache(m.cache, k.key) THEN m
        ELSE [m EXCEPT !.cache = IF r.exc = "none"
                                 THEN @ \cup {[key |-> k.key, val |-> r.val]}
                                 ELSE @,
                       !.calls = IF r.invoked = 1 THEN Invoke(@, k.key, r) ELSE @]

\* memof(*args, **kwargs): what the caller gets
memof_outcome(m, args, kwargs, body) ==
    LET k == key_of(m.key, args, kwargs)
        r == py_call(m.func.name, args, kwargs, body)
    IN  IF k.exc # "none" THEN Outcome(k.exc, NoObj, NoVal, 0, FALSE)
        ELSE IF ~key_hashable(k.key) THEN Outcome("TypeError", NoObj, NoVal, 0, FALSE)
        ELSE IF InCache(m.cache, k.key)
        THEN Outcome("value", NoObj, Cached(m.cache, k.key), 0, FALSE)
        ELSE IF r.exc = "none" THEN Outcome("value", NoObj, r.val, r.invoked, FALSE)
        ELSE Outcome(r.exc, NoObj, NoVal, r.invoked, FALSE)

MemoFuncs == {"f", "foo", "unary"}
MemoArgInputs == SeqsUpTo({1, 3}, MaxMemoArgs)
MemoKwValues(n) == IF n = "b" THEN HashValues ELSE {1}
MemoKwInputs ==
    UNION {{d \in [D -> HashValues] : \A n \in D : d[n] \in MemoKwValues(n)} :
             D \in {E \in SUBSET {"a", "b"} : Cardinality(E) <= MaxMemoKw}}

\* mf = memoize(fn), or mf = memoize(fn, cache={k: True}) with k the key of
\* the call fn(1) or fn(1, 1)
InitMemo ==
    \E fn \in MemoFuncs, supplied \in BOOLEAN :
        LET args == IF fn = "unary" THEN <<1>> ELSE <<1, 1>>
            k == key_of(memoize_key(fn), args, <<>>).key
        IN  /\ self = memoize(fn, IF supplied THEN {[key |-> k, val |-> Supplied]} ELSE {})
            /\ op = Operation("memoize", <<>>, <<>>, "none", NoObj, "")
            /\ out = NoOutcome

\* mf(*args, **kwargs); body is what the function's body does when entered
Memof(args, kwargs, body) ==
    /\ LET k == key_of(self.key, args, kwargs).key
       IN  TotalInvocations(self.calls) < MaxInvocations \/ InCache(self.cache, k)
    /\ py_call(self.func.name, args, kwargs, body).invoked = 0 => body = "return"
    /\ op' = Operation("memof", args, kwargs, body, NoObj, "")
    /\ out' = memof_outcome(self, args, kwargs, body)
    /\ self' = memof(self, args, kwargs, body)

NextMemo ==
    \E args \in MemoArgInputs, kwargs \in MemoKwInputs, body \in {"return", "OtherError"} :
        Memof(args, kwargs, body)

SpecMemo == InitMemo /\ [][NextMemo]_vars

----------------------------------------------------------------------------
(* merge_sorted *)

\* most sequences merged and most elements of one of them
MaxSeqs == 3
MaxSeqLen == 2

MergeValues == {2, 3, 4}
MergeKeys == {"None", "floordiv3"}

\* key(val): the value itself when no key is given, lambda x: x // 3
apply_key(key, val) == IF key = "None" THEN val ELSE val \div 3

\* val2 <= val1 in place of val2 < val1
less_or_equal(key, val2, val1) == apply_key(key, val2) <= apply_key(key, val1)

\* val2 < val1 of _merge_sorted_binary, key2 < key1 of
\* _merge_sorted_binary_key
less(key, val2, val1) == apply_key(key, val2) < apply_key(key, val1)

\* the loops of _merge_sorted_binary and _merge_sorted_binary_key, as what
\* they yield from a position on: merge_outer at the head of 'for val1 in
\* seq1' with val2 waiting, merge_inner at the head of 'for val2 in seq2'
\* with val1 waiting
RECURSIVE merge_outer(_, _, _, _), merge_inner(_, _, _, _)
merge_outer(seq1, seq2, val2, key) ==
    IF seq1 = <<>> THEN <<val2>> \o seq2
    ELSE LET val1 == Head(seq1)
         IN  IF less(key, val2, val1)
             THEN <<val2>> \o merge_inner(Tail(seq1), seq2, val1, key)
             ELSE <<val1>> \o merge_outer(Tail(seq1), seq2, val2, key)
merge_inner(seq1, seq2, val1, key) ==
    IF seq2 = <<>> THEN <<val1>> \o seq1
    ELSE LET val2 == Head(seq2)
         IN  IF less(key, val2, val1)
             THEN <<val2>> \o merge_inner(seq1, Tail(seq2), val1, key)
             ELSE <<val1>> \o merge_outer(seq1, Tail(seq2), val2, key)

\* _merge_sorted_binary(seqs) and _merge_sorted_binary_key(seqs, key): the
\* list of what the generator yields
RECURSIVE _merge_sorted_binary(_, _)
_merge_sorted_binary(seqs, key) ==
    LET mid == Len(seqs) \div 2
        L1 == SubSeq(seqs, 1, mid)
        seq1 == IF Len(L1) = 1 THEN L1[1] ELSE _merge_sorted_binary(L1, key)
        L2 == SubSeq(seqs, mid + 1, Len(seqs))
        seq2 == IF Len(L2) = 1 THEN L2[1] ELSE _merge_sorted_binary(L2, key)
    IN  IF seq2 = <<>> THEN seq1
        ELSE merge_outer(seq1, Tail(seq2), Head(seq2), key)

\* list(merge_sorted(*seqs, key=key))
merge_sorted(seqs, key) ==
    IF Len(seqs) = 0 THEN <<>>
    ELSE IF Len(seqs) = 1 THEN seqs[1]
    ELSE _merge_sorted_binary(seqs, key)

\* the sequences a caller may pass: each sorted by the key
IsSortedBy(key, seq) ==
    \A i, j \in DOMAIN seq : i < j => apply_key(key, seq[i]) <= apply_key(key, seq[j])
SortedSeqs(key) == {seq \in SeqsUpTo(MergeValues, MaxSeqLen) : IsSortedBy(key, seq)}

\* the caller has its key function, or none, and its first sequence, or none
InitMerge ==
    \E key \in MergeKeys :
        \E seqs \in SeqsUpTo(SortedSeqs(key), 1) :
            /\ self = [key |-> key, kind |-> "seqs", seqs |-> seqs]
            /\ op = Operation("key", <<>>, <<>>, "none", NoObj, "")
            /\ out = NoOutcome

\* list(merge_sorted(*seqs, key=key)), for the first sequence and more
\* sequences sorted by the key
MergeSorted ==
    /\ op.name = "key"
    /\ \E more \in SeqsUpTo(SortedSeqs(self.key), MaxSeqs - 1) :
          /\ self.seqs = <<>> => more = <<>>
          /\ self' = [self EXCEPT !.seqs = @ \o more]
          /\ op' = Operation("merge_sorted", <<>>, <<>>, "none", NoObj, "")
          /\ out' = [Outcome("list", NoObj, NoVal, 0, TRUE)
                       EXCEPT !.val = merge_sorted(self'.seqs, self.key)]

NextMerge == MergeSorted

SpecMerge == InitMerge /\ [][NextMerge]_vars

----------------------------------------------------------------------------
(* update_in *)

\* most dicts on the heap before the call, and the longest key path
MaxDicts == 3
MaxPath == 3

DictKeys == {"a", "b"}

\* the values a dict holds: a number, or a reference to a dict on the heap;
\* the heap is the sequence of the dicts, a dict is a function from its keys
IntVal(n) == [tag |-> "int", val |-> n]
DictRef(id) == [tag |-> "ref", val |-> id]
\* default=None
DefaultVal == [tag |-> "None", val |-> 0]

\* func(v), for a func defined on every value, as str is: its result tells
\* what it was applied to
func_apply(v) ==
    [tag |-> CASE v.tag = "int" -> "func(int)"
               [] v.tag = "ref" -> "func(dict)"
               [] OTHER -> "func(None)",
     val |-> IF v.tag = "ref" THEN 0 ELSE v.val]

EmptyDict == [k \in {} |-> IntVal(0)]
\* inner[k] = v
SetItem(dict, k, v) == [x \in DOMAIN dict \cup {k} |-> IF x = k THEN v ELSE dict[x]]

\* update_in from 'for key in ks' on: d the dict looked into, inner the copy
\* written to, k the key in hand, ks the keys left
RECURSIVE update_in_loop(_, _, _, _, _, _)
update_in_loop(heap, d, inner, k, ks, rv) ==
    IF ks = <<>>
    THEN [exc |-> "none",
          heap |-> [heap EXCEPT ![inner] =
                       SetItem(@, k, func_apply(IF k \in DOMAIN heap[d]
                                                THEN heap[d][k] ELSE DefaultVal))],
          val |-> rv]
    ELSE IF k \in DOMAIN heap[d] /\ heap[d][k].tag # "ref"
    THEN \* dtemp.update(d) with d a number
         [exc |-> "TypeError", heap |-> heap, val |-> 0]
    ELSE LET dtemp == Len(heap) + 1
             found == k \in DOMAIN heap[d]
             next_d == IF found THEN heap[d][k].val ELSE dtemp
             heap1 == Append(heap, IF found THEN heap[next_d] ELSE EmptyDict)
             heap2 == [heap1 EXCEPT ![inner] = SetItem(@, k, DictRef(dtemp))]
         IN  update_in_loop(heap2, next_d, dtemp, Head(ks), Tail(ks), rv)

\* update_in that writes into d itself: rv = inner = d
update_in_in_place(heap, d, keys) ==
    IF keys = <<>> THEN [exc |-> "StopIteration", heap |-> heap, val |-> 0]
    ELSE update_in_loop(heap, d, d, Head(keys), Tail(keys), d)

\* update_in(d, keys, func, default): the heap afterwards, and the dict
\* returned or the exception raised
update_in(heap, d, keys) ==
    IF keys = <<>> THEN [exc |-> "StopIteration", heap |-> heap, val |-> 0]
    ELSE LET rv == Len(heap) + 1
         IN  update_in_loop(Append(heap, heap[d]), d, rv, Head(keys), Tail(keys), rv)

\* the dicts a caller may hold: d is the first, a dict holds numbers and
\* dicts further on, and every dict is reached from d
DictsAt(i, n) == UNION {[D -> {IntVal(1)} \cup {DictRef(j) : j \in (i + 1)..n}] : D \in SUBSET DictKeys}
Referenced(heap, j) == \E i \in 1..(j - 1) : \E k \in DOMAIN heap[i] : heap[i][k] = DictRef(j)
RECURSIVE HeapsFrom(_, _)
HeapsFrom(i, n) ==
    IF i > n THEN {<<>>}
    ELSE {<<d>> \o rest : d \in DictsAt(i, n), rest \in HeapsFrom(i + 1, n)}
Heaps ==
    UNION {{heap \in HeapsFrom(1, n) : \A j \in 2..n : Referenced(heap, j)} : n \in 1..MaxDicts}

InitUpdate ==
    \E heap \in Heaps :
        /\ self = [heap |-> heap, kind |-> "heap"]
        /\ op = Operation("dict", <<>>, <<>>, "none", NoObj, "")
        /\ out = NoOutcome

\* update_in(d, keys, func, default=None)
UpdateIn(keys) ==
    /\ op.name = "dict"
    /\ LET r == update_in(self.heap, 1, keys)
       IN  /\ self' = [self EXCEPT !.heap = r.heap]
           /\ op' = Operation("update_in", keys, <<>>, "none", NoObj, "")
           /\ out' = IF r.exc = "none"
                     THEN Outcome("dict", DictRef(r.val), NoVal, 0, TRUE)
                     ELSE Outcome(r.exc, NoObj, NoVal, 0, FALSE)

NextUpdate == \E keys \in SeqsUpTo(DictKeys, MaxPath) : UpdateIn(keys)

SpecUpdate == InitUpdate /\ [][NextUpdate]_vars

----------------------------------------------------------------------------
(* Failed calls of several threads on one curry *)

\* most threads calling one curry at a time
MaxThreads == 2
Threads == 1..MaxThreads

\* a thread inside c(*args, **kwargs) whose underlying call raised TypeError
Thread(args, kwargs, body, pc, sigspec, answer) ==
    [answer |-> answer, args |-> args, body |-> body, kwargs |-> kwargs,
     pc |-> pc, sigspec |-> sigspec]

\* the rest of _should_curry, on the signature this call holds and on the
\* flag as the instance holds it when the call reads it: None is falsy
_should_curry_decide(c, args, kwargs, sigspec) ==
    LET fn == curry_func(c).name
        _args == curry_args(c) \o args
        _kwargs == Update(curry_keywords(c), kwargs)
    IN  IF is_partial_args(fn, _args, _kwargs, sigspec) = "False" THEN FALSE
        ELSE IF c.has_unknown_args = "True" THEN TRUE
        ELSE IF is_valid_args(fn, _args, _kwargs, sigspec) # "True" THEN TRUE
        ELSE FALSE

\* c = curry(fn, *args); every thread has called c and its call has failed
InitRace ==
    \E fn \in Funcs, args \in ArgInputs :
        /\ self = curry_init(FnRef(fn), args, <<>>)
        /\ op = Operation("curry", args, <<>>, "none", NoObj, "")
        /\ out \in [Threads -> {Thread(a, k, b, "enter", NoSig, "None") :
                                   a \in ArgInputs, k \in KwInputs, b \in BodyOutcomes}]
        /\ \A t \in Threads :
              LET r == curry_call(self, out[t].args, out[t].kwargs, out[t].body)
              IN  /\ r.exc = "TypeError"
                  /\ r.invoked = 0 => out[t].body = "return"

Step(t, name) == op' = Operation(name, <<t>>, <<>>, "none", NoObj, "")

\* if self._sigspec is None: ... else: sigspec = self._sigspec
ReadSigspec(t) ==
    /\ out[t].pc = "enter"
    /\ out' = [out EXCEPT ![t] =
                 IF self.sigspec.known
                 THEN [@ EXCEPT !.pc = "decide", !.sigspec = self.sigspec]
                 ELSE [@ EXCEPT !.pc = "resolve"]]
    /\ Step(t, "read_sigspec")
    /\ UNCHANGED self

\* sigspec = self._sigspec = _sigs.signature_or_spec(func)
WriteSigspec(t) ==
    /\ out[t].pc = "resolve"
    /\ LET sigspec == signature_or_spec(curry_func(self).name)
       IN  /\ self' = [self EXCEPT !.sigspec = sigspec]
           /\ out' = [out EXCEPT ![t] = [@ EXCEPT !.pc = "flag", !.sigspec = sigspec]]
    /\ Step(t, "write_sigspec")

\* self._has_unknown_args = has_varargs(func, sigspec) is not False
WriteHasUnknownArgs(t) ==
    /\ out[t].pc = "flag"
    /\ self' = [self EXCEPT !.has_unknown_args =
                   Tri(has_varargs(curry_func(self).name, out[t].sigspec) # "False")]
    /\ out' = [out EXCEPT ![t] = [@ EXCEPT !.pc = "decide"]]
    /\ Step(t, "write_has_unknown_args")

\* the three tests; __call__ binds when the answer is True and re-raises
\* when it is False
Decide(t) ==
    /\ out[t].pc = "decide"
    /\ out' = [out EXCEPT ![t] =
                 [@ EXCEPT !.pc = "done",
                           !.answer = Tri(_should_curry_decide(self, out[t].args,
                                                               out[t].kwargs,
                                                               out[t].sigspec))]]
    /\ Step(t, "decide")
    /\ UNCHANGED self

NextRace ==
    \E t \in Threads :
        \/ ReadSigspec(t)
        \/ WriteSigspec(t)
        \/ WriteHasUnknownArgs(t)
        \/ Decide(t)

SpecRace == InitRace /\ [][NextRace]_vars

----------------------------------------------------------------------------
(* Resolutions of the signature over calls and binds *)

\* most calls of signature_or_spec the client's operations make
MaxResolutions == 3

\* calls of _sigs.signature_or_spec made by c(*args, **kwargs): one when the
\* underlying call raises TypeError and c holds no signature, none otherwise
resolutions(c, args, kwargs, body) ==
    IF curry_call(c, args, kwargs, body).exc = "TypeError" /\ ~c.sigspec.known
    THEN 1 ELSE 0

\* c = curry(fn, *args); count is the number of resolutions of fn's signature
\* so far, obj the curry the client holds
InitResolve ==
    \E fn \in Funcs, args \in ArgInputs :
        /\ self = [count |-> 0, kind |-> "client", obj |-> curry_init(FnRef(fn), args, <<>>)]
        /\ op = Operation("curry", args, <<>>, "none", NoObj, "")
        /\ out = Outcome("curry", self.obj, NoVal, 0, TRUE)

\* c(*args, **kwargs)
CallOn(args, kwargs, body) ==
    /\ Fits(self.obj, args)
    /\ curry_call(self.obj, args, kwargs, body).invoked = 0 => body = "return"
    /\ self.count + resolutions(self.obj, args, kwargs, body) <= MaxResolutions
    /\ op' = Operation("call", args, kwargs, body, NoObj, "")
    /\ out' = curry___call__(self.obj, args, kwargs, body)
    /\ self' = [self EXCEPT !.count = @ + resolutions(self.obj, args, kwargs, body),
                            !.obj = curry___call___self(self.obj, args, kwargs, body)]

\* c.bind(*args, **kwargs)
BindOn(args, kwargs) ==
    /\ Fits(self.obj, args)
    /\ op' = Operation("bind", args, kwargs, "none", NoObj, "")
    /\ out' = curry_bind_outcome(self.obj, args, kwargs)
    /\ UNCHANGED self

\* the client goes on with the curry the call or the bind returned
GoOn ==
    /\ out.kind = "curry"
    /\ out.fresh
    /\ out.obj # self.obj
    /\ self' = [self EXCEPT !.obj = out.obj]
    /\ op' = Operation("adopt", <<>>, <<>>, "none", NoObj, "")
    /\ out' = NoOutcome

NextResolve ==
    \/ \E args \in ArgInputs, kwargs \in KwInputs :
          \/ BindOn(args, kwargs)
          \/ \E body \in BodyOutcomes : CallOn(args, kwargs, body)
    \/ GoOn

SpecResolve == InitResolve /\ [][NextResolve]_vars

----------------------------------------------------------------------------
(* sandbox.parallel.fold *)

\* most items of the sequence that is folded
MaxFoldLen == 4
\* largest chunksize passed to fold
MaxChunk == 3
\* most nested calls of fold the interpreter allows before RecursionError
MaxDepth == 3

FoldValues == {1, 2}
\* chunksize as the caller passes it: 0 is below the least chunk
ChunkSizes == 0..MaxChunk
no_default == [tag |-> "no_default", val |-> 0]
Defaults == {no_default, IntVal(0)}

max(a, b) == IF a >= b THEN a ELSE b

\* list(partition_all(n, seq)): tuples of n items, the last one shorter
RECURSIVE partition_all(_, _)
partition_all(n, seq) ==
    IF seq = <<>> THEN <<>>
    ELSE IF Len(seq) <= n THEN <<seq>>
    ELSE <<SubSeq(seq, 1, n)>> \o partition_all(n, SubSeq(seq, n + 1, Len(seq)))

\* functools.reduce(add, seq, initial)
RECURSIVE reduce(_, _)
reduce(seq, initial) ==
    IF seq = <<>> THEN initial
    ELSE reduce(Tail(seq), initial + Head(seq))

\* _reduce(binop, seq, initial) with binop = add; fold hands it no empty chunk
_reduce(seq, initial) ==
    IF initial = no_default THEN reduce(Tail(seq), Head(seq))
    ELSE reduce(seq, initial.val)

\* one call of fold, up to results = list(results)
fold_results(call) ==
    LET chunks == partition_all(max(call.chunksize, 1), call.seq)
    IN  [i \in 1..Len(chunks) |-> _reduce(chunks[i], call.default)]

\* the call fold(combine, results, map=map, chunksize=chunksize)
fold_recurse(call) ==
    [chunksize |-> max(call.chunksize, 1), default |-> no_default,
     depth |-> call.depth + 1, kind |-> "fold", seq |-> fold_results(call)]

\* fold(add, seq, default, chunksize=chunksize) is called
InitFold ==
    \E seq \in SeqsUpTo(FoldValues, MaxFoldLen), chunksize \in ChunkSizes,
       default \in Defaults :
        /\ self = [chunksize |-> chunksize, default |-> default, depth |-> 0,
                   kind |-> "fold", seq |-> seq]
        /\ op = Operation("fold", <<>>, <<>>, "none", NoObj, "")
        /\ out = NoOutcome

Running == self.kind = "fold" /\ out.kind = "none"

\* if len(results) == 1: res = results[0]
FoldReturn ==
    /\ Running
    /\ Len(fold_results(self)) = 1
    /\ op' = Operation("return", <<>>, <<>>, "none", NoObj, "")
    /\ out' = [Outcome("value", NoObj, NoVal, 0, FALSE) EXCEPT !.val = fold_results(self)[1]]
    /\ UNCHANGED self

\* else: res = fold(combine, results, map=map, chunksize=chunksize)
FoldRecurse ==
    /\ Running
    /\ Len(fold_results(self)) # 1
    /\ self.depth < MaxDepth
    /\ self' = fold_recurse(self)
    /\ op' = Operation("recurse", <<>>, <<>>, "none", NoObj, "")
    /\ UNCHANGED out

\* the nested call that exceeds the interpreter's recursion limit
FoldRecursionError ==
    /\ Running
    /\ Len(fold_results(self)) # 1
    /\ self.depth = MaxDepth
    /\ op' = Operation("recurse", <<>>, <<>>, "none", NoObj, "")
    /\ out' = Outcome("RecursionError", NoObj, NoVal, 0, FALSE)
    /\ UNCHANGED self

NextFold == FoldReturn \/ FoldRecurse \/ FoldRecursionError

\* a call that has started runs on: each level is one step of one thread
SpecFold == InitFold /\ [][NextFold]_vars /\ WF_vars(NextFold)

----------------------------------------------------------------------------
(* The last call, as the claims read it *)

IsCall == op.name = "call"
\* the function called and the arguments of the call combined with those the
\* receiver held
CallFn == curry_func(self).name
CallArgs == curry_args(self) \o op.args
CallKwargs == Update(curry_keywords(self), op.kwargs)
CallValid == is_valid_args(CallFn, CallArgs, CallKwargs, NoSig)
CallPartial == is_partial_args(CallFn, CallArgs, CallKwargs, NoSig)
\* the call returned a new curry holding the combined arguments
ReturnedCurry ==
    /\ out.kind = "curry"
    /\ IsCurry(out.obj)
    /\ curry_func(out.obj) = curry_func(self)
    /\ curry_args(out.obj) = CallArgs
    /\ curry_keywords(out.obj) = CallKwargs

\* names of the parameters that must be given, and of those that need not be
RequiredNames(fn) ==
    {Parameters(fn)[i].name : i \in {j \in DOMAIN Parameters(fn) :
        /\ ~Parameters(fn)[j].has_default
        /\ Parameters(fn)[j].kind \notin {VAR_POSITIONAL, VAR_KEYWORD}}}
OptionalNames(fn) ==
    {Parameters(fn)[i].name : i \in {j \in DOMAIN Parameters(fn) :
        Parameters(fn)[j].has_default}}
\* names of the parameters the positional arguments fill
PositionalNames(fn, args) ==
    {Parameters(fn)[i].name : i \in {j \in DOMAIN Parameters(fn) :
        IsPositional(Parameters(fn)[j]) /\ j <= Len(args)}}
NumPositional(fn) ==
    Cardinality({j \in DOMAIN Parameters(fn) : IsPositional(Parameters(fn)[j])})

----------------------------------------------------------------------------
(* C1 *)

\* C1, as stated: whenever the arguments bind and the body of the wrapped
\* callable raises, the curried call raises that same exception.
C1_BodyErrorAlwaysPropagates ==
    (IsCall /\ out.invoked = 1 /\ op.body # "return") => out.kind = op.body

\* C1, amended: when the arguments bind and the body raises, the exception
\* propagates if it is not a TypeError or the callable is known to have no
\* var-positional parameter; a TypeError from the body of a callable with a
\* var-positional parameter is answered with a new curry holding the combined
\* arguments.
C1_BodyErrorPropagates ==
    (IsCall /\ out.invoked = 1 /\ op.body # "return") =>
        IF op.body = "TypeError" /\ has_varargs(CallFn, NoSig) # "False"
        THEN ReturnedCurry
        ELSE out.kind = op.body

\* a TypeError from the body of f(a, b) reached the caller
C1_Witness ==
    /\ IsCall /\ out.invoked = 1 /\ op.body = "TypeError"
    /\ has_varargs(CallFn, NoSig) = "False"
    /\ out.kind = "TypeError"

----------------------------------------------------------------------------
(* C2 *)

\* C2: the outcome of a call depends on the combined arguments alone: the
\* function is invoked iff is_valid_args is True of them; TypeError is raised
\* without invoking it iff is_partial_args is False of them; otherwise a curry
\* holding them is returned and the function is not invoked.
C2_OutcomeByCombinedArgs ==
    IsCall =>
        /\ out.invoked = 1 <=> CallValid = "True"
        /\ (out.kind = "TypeError" /\ out.invoked = 0) <=> CallPartial = "False"
        /\ (CallValid # "True" /\ CallPartial # "False") =>
              (ReturnedCurry /\ out.invoked = 0)

\* arguments bound at construction and keywords given at the call complete it
C2_Witness ==
    /\ IsCall /\ out.invoked = 1
    /\ curry_args(self) # <<>> /\ DOMAIN op.kwargs # {} /\ op.args = <<>>
    /\ CallFn = "f"

----------------------------------------------------------------------------
(* C3 *)

NoVarargs == has_varargs(CallFn, NoSig) = "False"
FewerThanRequired == Len(CallArgs) < num_required_args(CallFn, NoSig)

\* C3, as stated: a call with fewer positional arguments in total than the
\* function requires returns a new curry and does not invoke the function,
\* whatever keywords come with them.
C3_FewerPositionalsAlwaysCurry ==
    (IsCall /\ NoVarargs /\ FewerThanRequired) =>
        (ReturnedCurry /\ out.fresh /\ out.invoked = 0)

\* C3, amended: a call with fewer positional arguments in total than the
\* function requires, whose keywords name only parameters that have a
\* default, returns a new curry and does not invoke the function.
C3_FewerPositionalsCurry ==
    (IsCall /\ NoVarargs /\ FewerThanRequired
        /\ DOMAIN CallKwargs \subseteq OptionalNames(CallFn)) =>
        (ReturnedCurry /\ out.fresh /\ out.invoked = 0)

\* foo(1, c=...) gave a curry
C3_Witness ==
    /\ IsCall /\ NoVarargs /\ FewerThanRequired
    /\ DOMAIN CallKwargs # {}
    /\ DOMAIN CallKwargs \subseteq OptionalNames(CallFn)
    /\ Len(CallArgs) > 0
    /\ out.kind = "curry"

----------------------------------------------------------------------------
(* C4 *)

\* the combined arguments give exactly the required parameters, each once
ExactlyRequired ==
    /\ Len(CallArgs) <= NumPositional(CallFn)
    /\ PositionalNames(CallFn, CallArgs) \cap DOMAIN CallKwargs = {}
    /\ PositionalNames(CallFn, CallArgs) \cup DOMAIN CallKwargs = RequiredNames(CallFn)

\* C4: a call whose combined arguments give exactly the required arguments
\* runs the function's body once and, when the body returns, returns its
\* result; no call runs the body more than once.
C4_InvokedExactlyOnce ==
    IsCall =>
        /\ out.invoked <= 1
        /\ ExactlyRequired =>
              /\ out.invoked = 1
              /\ op.body = "return" =>
                    /\ out.kind = "value"
                    /\ out.val = Result(CallFn, CallArgs, CallKwargs)

\* the required arguments were completed over two steps and the body raised
\* TypeError
C4_Witness ==
    /\ IsCall /\ ExactlyRequired /\ out.invoked = 1
    /\ op.body = "TypeError" /\ out.kind = "TypeError"
    /\ Len(curry_args(self)) = 1 /\ Len(op.args) = 1

----------------------------------------------------------------------------
(* C5 *)

VarargsComplete == has_varargs(CallFn, NoSig) = "True" /\ CallValid = "True"

\* C5, as stated: for a function with a var-positional parameter, a call that
\* satisfies every required parameter does not invoke it and returns a curry.
C5_VarargsNeverInvokedEagerly ==
    (IsCall /\ VarargsComplete) => (out.kind = "curry" /\ out.invoked = 0)

\* C5, amended: for a function with a var-positional parameter, a call that
\* satisfies every required parameter invokes it once; the result is returned
\* when the body returns, and a curry holding the combined arguments is
\* returned, to go on accumulating, only when the body raises TypeError; any
\* other exception of the body propagates.
C5_VarargsInvokedThenCurried ==
    (IsCall /\ VarargsComplete) =>
        /\ out.invoked = 1
        /\ op.body = "return" =>
              (out.kind = "value" /\ out.val = Result(CallFn, CallArgs, CallKwargs))
        /\ op.body = "TypeError" => (ReturnedCurry /\ out.fresh)
        /\ op.body = "OtherError" => out.kind = "OtherError"

\* fv(1, ...) raised TypeError in its body and a curry came back
C5_Witness ==
    /\ IsCall /\ VarargsComplete /\ op.body = "TypeError"
    /\ out.kind = "curry" /\ Len(curry_args(out.obj)) > 1

----------------------------------------------------------------------------
(* C6 *)

\* curry(w, *a2, **k2) was built from self, a curry or a functools.partial of
\* a Python function
IsCurryFromWrapper == op.name = "curry_from" /\ curry_func(self).tag = "fn"
OuterWins ==
    [n \in DOMAIN curry_keywords(self) \cup DOMAIN op.kwargs |->
        IF n \in DOMAIN op.kwargs THEN op.kwargs[n] ELSE curry_keywords(self)[n]]

\* C6: curry(curry(f, *a1, **k1), *a2, **k2) has the func, args and keywords
\* of curry(f, *a1, *a2) with k1 overridden by k2: func is f, args are a1
\* followed by a2, and the outer value wins on a repeated keyword; the same
\* when the inner wrapper is a functools.partial.
C6_FlattenOneLevel ==
    IsCurryFromWrapper =>
        /\ IsCurry(out.obj)
        /\ curry_func(out.obj) = curry_func(self)
        /\ curry_args(out.obj) = curry_args(self) \o op.args
        /\ curry_keywords(out.obj) = OuterWins
        /\ out.obj.partial =
              curry_init(curry_func(self), curry_args(self) \o op.args, OuterWins).partial

\* inner and outer both gave a positional argument and the keyword c, with
\* different values
C6_Witness ==
    /\ IsCurryFromWrapper /\ IsCurry(self)
    /\ curry_args(self) # <<>> /\ op.args # <<>>
    /\ "c" \in DOMAIN curry_keywords(self) /\ "c" \in DOMAIN op.kwargs
    /\ curry_keywords(self)["c"] # op.kwargs["c"]
    /\ curry_keywords(out.obj)["c"] = op.kwargs["c"]

----------------------------------------------------------------------------
(* C7 *)

FuncIsCurry(c) ==
    IsCurry(c) /\ curry_func(c).tag = "obj" /\ curry_func(c).obj.kind = "curry"

\* C7: in every reachable state the func of every curry object, the receiver
\* and the object the last operation returned, is not itself a curry.
C7_FuncNeverCurry == ~FuncIsCurry(self) /\ ~FuncIsCurry(out.obj)

----------------------------------------------------------------------------
(* C8 *)

Fields(c) == <<curry_func(c), curry_args(c), curry_keywords(c)>>
OnReceiver == {"call", "bind", "get", "setattr", "eq", "curry_from"}
Accumulates ==
    /\ op'.name \in {"call", "bind", "get", "curry_from"}
    /\ out'.kind = "curry"
    /\ (op'.args # <<>> \/ DOMAIN op'.kwargs # {})
    /\ ~(op'.name = "get" /\ op'.args = <<NoneVal>>)

\* C8: a call, whatever its outcome, bind and method access leave func, args
\* and keywords of the receiver as they were; a result that accumulated
\* arguments is a new curry object, not the receiver; assigning to func, args
\* or keywords raises AttributeError and changes nothing.
C8_ReceiverUnchanged ==
    [][/\ op'.name \in OnReceiver => Fields(self') = Fields(self)
       /\ Accumulates =>
            /\ out'.fresh
            /\ op'.args # <<>> => curry_args(out'.obj) # curry_args(self)
       /\ op'.name = "setattr" => (out'.kind = "AttributeError" /\ self' = self)
      ]_vars

\* a call returned a curry with more arguments; the receiver wrote its
\* signature cache and kept its arguments
C8_Witness ==
    /\ IsCall /\ out.kind = "curry" /\ out.fresh
    /\ self.sigspec.known
    /\ Len(curry_args(out.obj)) > Len(curry_args(self))
    /\ curry_args(self) # <<>>

----------------------------------------------------------------------------
(* C9 *)

\* functools.partial(f, ...) of everything given so far
LikePartial == partial_new(curry_func(self), CallArgs, CallKwargs)

\* C9: curry(f, ...) holds what functools.partial(f, ...) holds, and each
\* under-filled call returns a curry that holds what the partial of the
\* receiver's arguments followed by the call's holds, the later keyword
\* winning: so it is after every chain of such calls; a call that completes
\* returns what calling that partial returns.
C9_LikePartial ==
    /\ (op.name = "curry" /\ IsCurry(self)) =>
          self.partial = partial_new(curry_func(self), op.args, op.kwargs)
    /\ (IsCall /\ out.kind = "curry") =>
          (IsCurry(out.obj) /\ out.obj.partial = LikePartial)
    /\ (IsCall /\ out.kind = "value") =>
          out.val = py_call(LikePartial.func.name, LikePartial.args,
                            LikePartial.keywords, op.body).val

\* the second under-filled call of a chain on foo rebinds a keyword
C9_Witness ==
    /\ IsCall /\ out.kind = "curry"
    /\ op.args = <<>>
    /\ "c" \in DOMAIN curry_keywords(self) /\ "c" \in DOMAIN op.kwargs
    /\ curry_keywords(self)["c"] # op.kwargs["c"]
    /\ curry_keywords(out.obj)["c"] = op.kwargs["c"]
    /\ curry_args(out.obj) # <<>>

----------------------------------------------------------------------------
(* C10 *)

IsEq == op.name = "eq"
SameCurry(c, other) == IsCurry(other) /\ other.partial = c.partial

\* C10: c == other iff other is a curry with the same func, the same args and
\* the same keywords, so that the curry an empty call or rebinding a keyword
\* to its value returned equals the receiver, and a curry that differs in
\* func, in an argument or in a keyword value does not; != is the negation.
C10_StructuralEquality ==
    IsEq =>
        /\ out.eq <=> SameCurry(self, op.other)
        /\ out.ne <=> ~out.eq
        /\ (IsCurry(op.other) /\ curry_func(op.other) # curry_func(self)) => out.ne
        /\ (IsCurry(op.other) /\ curry_args(op.other) # curry_args(self)) => out.ne
        /\ (IsCurry(op.other) /\ curry_keywords(op.other) # curry_keywords(self)) => out.ne

\* the receiver, which holds a keyword and has written its signature cache,
\* equals another object that has not
C10_Witness ==
    /\ IsEq /\ out.eq
    /\ op.other # self
    /\ DOMAIN curry_keywords(self) # {}

----------------------------------------------------------------------------
(* C11 *)

HasUnhashable(c) ==
    \/ \E i \in DOMAIN curry_args(c) : curry_args(c)[i] \in Unhashable
    \/ \E n \in DOMAIN curry_keywords(c) : curry_keywords(c)[n] \in Unhashable

\* C11: two curries with hashable arguments that compare equal have the same
\* hash, whatever else the objects hold; two curries that differ in func,
\* args or keywords do not compare equal, whether or not their hashes agree.
C11_EqualHashEqual ==
    (IsEq /\ IsCurry(op.other)) =>
        /\ (out.eq /\ ~HasUnhashable(self) /\ ~HasUnhashable(op.other)) =>
              /\ curry___hash__(self).ok
              /\ curry___hash__(op.other).ok
              /\ curry___hash__(self).val = curry___hash__(op.other).val
        /\ Fields(self) # Fields(op.other) => ~out.eq

\* a curry that has written its signature cache equals one that has not, and
\* both hold a positional argument and a keyword
C11_Witness ==
    /\ IsEq /\ out.eq /\ ~HasUnhashable(self)
    /\ op.other # self
    /\ curry_args(self) # <<>>
    /\ DOMAIN curry_keywords(self) # {}

----------------------------------------------------------------------------
(* C12 *)

IsHash == op.name = "hash"

\* C12: hash(c) raises TypeError, and gives no hash value, when c holds an
\* unhashable argument, positional or keyword; otherwise it returns the hash.
C12_UnhashableRaises ==
    IsHash =>
        /\ HasUnhashable(self) => (out.kind = "TypeError" /\ out.hash = 0)
        /\ ~HasUnhashable(self) =>
              (out.kind = "hash" /\ out.hash = curry___hash__(self).val)

\* the only unhashable argument is the keyword c
C12_Witness ==
    /\ IsHash /\ out.kind = "TypeError"
    /\ \A i \in DOMAIN curry_args(self) : curry_args(self)[i] \notin Unhashable
    /\ curry_args(self) # <<>>
    /\ "c" \in DOMAIN curry_keywords(self)
    /\ curry_keywords(self)["c"] \in Unhashable

----------------------------------------------------------------------------
(* C13 *)

IsBind == op.name = "bind"

\* C13: bind returns a new curry holding the receiver's arguments followed by
\* the new ones, with the new keywords over the receiver's, and does not
\* invoke the function, also when the combined arguments are a valid call.
C13_BindNeverInvokes ==
    IsBind => (ReturnedCurry /\ out.fresh /\ out.invoked = 0)

\* bind completed the arguments of f(a, b) and f was not called
C13_Witness ==
    /\ IsBind /\ CallValid = "True" /\ op.args # <<>>
    /\ out.kind = "curry" /\ out.invoked = 0
    /\ curry_args(out.obj) = CallArgs

----------------------------------------------------------------------------
(* C14 *)

IsGet == op.name = "get"
\* the instance the attribute was read through; None when read through the
\* class
GetInstance == op.args[1]

\* C14: reading a curry through an instance gives a new curry of the same
\* func whose first positional argument is the instance, ahead of those the
\* curry had bound; reading it through the class gives the curry itself.
C14_InstanceFirst ==
    IsGet =>
        IF GetInstance = NoneVal
        THEN out.kind = "curry" /\ out.obj = self /\ ~out.fresh
        ELSE /\ out.kind = "curry" /\ out.fresh /\ IsCurry(out.obj)
             /\ curry_func(out.obj) = curry_func(self)
             /\ curry_keywords(out.obj) = curry_keywords(self)
             /\ curry_args(out.obj) = <<GetInstance>> \o curry_args(self)

----------------------------------------------------------------------------
(* C15 *)

IsClassify == op.name = "classify"
IsIntrospectable == self.name \in Introspectable

\* C15: whenever is_valid_args answers True, is_partial_args answers True for
\* the same callable and arguments.
C15_ValidImpliesPartial ==
    (IsClassify /\ out.valid = "True") => out.partial = "True"

\* a complete call with a keyword-only argument is valid, and partial
C15_Witness ==
    /\ IsClassify /\ out.valid = "True" /\ out.partial = "True"
    /\ self.name = "kwonly" /\ op.args # <<>>

----------------------------------------------------------------------------
(* C16 *)

\* the calls that extend the one classified: more positional arguments after
\* its own, more keywords under names it did not use
ExtraArgs == SeqsUpTo({1}, MaxExtraArgs)
ExtraKeywords == UNION {[D -> {1}] : D \in SUBSET (BindNames \ DOMAIN op.kwargs)}
CanBecomeValid ==
    \E more \in ExtraArgs, kw \in ExtraKeywords :
        is_valid_args(self.name, op.args \o more,
                      [n \in DOMAIN op.kwargs \cup DOMAIN kw |-> 1], NoSig) = "True"

----------------------------------------------------------------------------
(* C17 *)

\* C17: for an introspectable callable, is_valid_args is True iff the
\* arguments bind strictly: positional arguments fill the positional
\* parameters from the left and surplus ones need a var-positional
\* parameter; no parameter is given both ways; every keyword names a
\* parameter that takes keywords or a var-keyword parameter absorbs it; and
\* every non-variadic parameter without a default, keyword-only ones
\* included, is filled.
C17_ValidIffStrictBinding ==
    (IsClassify /\ IsIntrospectable) =>
        LET params == Parameters(self.name)
            pos == {i \in DOMAIN params : IsPositional(params[i])}
            filled == {i \in pos : i <= Len(op.args)}
            takes(n) == \E i \in DOMAIN params :
                           /\ params[i].name = n
                           /\ params[i].kind \in {POSITIONAL_OR_KEYWORD, KEYWORD_ONLY}
            strict ==
                /\ Len(op.args) > Cardinality(pos) => HasKind(params, VAR_POSITIONAL)
                /\ \A i \in filled : ~(takes(params[i].name) /\ params[i].name \in DOMAIN op.kwargs)
                /\ \A n \in DOMAIN op.kwargs : takes(n) \/ HasKind(params, VAR_KEYWORD)
                /\ \A i \in DOMAIN params :
                      \/ params[i].kind \in {VAR_POSITIONAL, VAR_KEYWORD}
                      \/ params[i].has_default
                      \/ i \in filled
                      \/ (takes(params[i].name) /\ params[i].name \in DOMAIN op.kwargs)
        IN  out.valid = Tri(strict)

\* a required keyword-only parameter is left out and the call is not valid
C17_Witness ==
    /\ IsClassify /\ self.name = "kwonly"
    /\ op.args # <<>> /\ "c" \notin DOMAIN op.kwargs
    /\ Len(op.args) = 1 /\ DOMAIN op.kwargs = {}
    /\ out.valid = "False"

----------------------------------------------------------------------------
(* C18 *)

IsOpaque == self.name \in Opaque
AllAnswer(v) ==
    /\ out.required = v /\ out.varargs = v /\ out.keywords = v
    /\ out.valid = v /\ out.partial = v

\* C18, as stated: for a callable whose signature cannot be introspected and
\* that the registry does not know, every classifier answers None, however
\* the introspection failed.
C18_OpaqueAlwaysNone ==
    (IsClassify /\ IsOpaque) => AllAnswer("None")

\* C18, amended: for such a callable every classifier answers None when
\* inspect.signature raised ValueError, and False when it raised TypeError.
C18_OpaqueByFailure ==
    (IsClassify /\ IsOpaque) =>
        /\ signature_raises(self.name) = "ValueError" => AllAnswer("None")
        /\ signature_raises(self.name) = "TypeError" => AllAnswer("False")

\* the function whose __signature__ is 34 is answered False
C18_Witness ==
    /\ IsClassify /\ self.name = "signature34"
    /\ out.valid = "False" /\ out.required = "False"

----------------------------------------------------------------------------
(* C19 *)

\* C19: num_required_args is the number of positional-only and
\* positional-or-keyword parameters without a default: parameters with a
\* default, keyword-only parameters and variadic parameters are not counted;
\* foo(a, b, c=1) gives 2 and g(*args, **kwargs) gives 0.
C19_CountsRequiredPositional ==
    (IsClassify /\ IsIntrospectable) =>
        LET params == Parameters(self.name)
            notCounted == {i \in DOMAIN params :
                             \/ params[i].has_default
                             \/ params[i].kind \in {KEYWORD_ONLY, VAR_POSITIONAL, VAR_KEYWORD}}
        IN  /\ out.required = Len(params) - Cardinality(notCounted)
            /\ self.name = "foo" => out.required = 2
            /\ self.name = "g" => out.required = 0

\* the required keyword-only parameter of kwonly(a, *, c) is not counted
C19_Witness ==
    /\ IsClassify /\ self.name = "kwonly" /\ out.required = 1
    /\ op.args = <<>> /\ DOMAIN op.kwargs = {}

----------------------------------------------------------------------------
(* C20 *)

IsPickle == op.name = "pickle"

\* C20: for any curry c, restoring its serialized state, whether the target
\* was embedded or referenced by module path, yields a curry with the same
\* func, args and keywords as c.
C20_RoundTrip ==
    IsPickle =>
        /\ IsCurry(out.obj)
        /\ curry_func(out.obj) = curry_func(self)
        /\ curry_args(out.obj) = curry_args(self)
        /\ curry_keywords(out.obj) = curry_keywords(self)

----------------------------------------------------------------------------
(* C21 *)

IsMemof == op.name = "memof"
MemofKey == key_of(self.key, op.args, op.kwargs)
MemofHashable == MemofKey.exc = "none" /\ key_hashable(MemofKey.key)

\* a key of the cache the caller supplied is never computed
SuppliedNeverComputed ==
    \A e \in self.cache : e.val = Supplied => Invocations(self.calls, e.key) = 0

\* a call on a key that was computed before returns the value computed the
\* first time
RepeatedReturnsFirst ==
    (IsMemof /\ MemofHashable /\ Calls(self.calls, MemofKey.key).returned > 0) =>
        out.kind = "value" /\ out.val = Calls(self.calls, MemofKey.key).val

\* C21, as stated: across any sequence of calls with hashable arguments the
\* function is invoked at most once per distinct cache key, every repeated
\* call returns the value computed the first time, and a key of a cache the
\* caller supplied is never computed.
C21_InvokedOncePerKey ==
    /\ \A e \in self.calls : e.count <= 1
    /\ RepeatedReturnsFirst
    /\ SuppliedNeverComputed

\* C21, amended: the function returns at most once per distinct cache key: a
\* call in which it raises stores nothing, and the next call on that key
\* invokes it again; every call on a key for which it has returned gives the
\* value returned the first time, and a key of a cache the caller supplied
\* is never computed.
C21_ReturnsOncePerKey ==
    /\ \A e \in self.calls : e.returned <= 1
    /\ RepeatedReturnsFirst
    /\ SuppliedNeverComputed

\* a repeated call answered from the cache, on a key whose first call raised
C21_Witness ==
    /\ IsMemof /\ MemofHashable
    /\ out.kind = "value" /\ out.invoked = 0
    /\ Calls(self.calls, MemofKey.key).count = 2
    /\ Calls(self.calls, MemofKey.key).returned = 1
    /\ out.val = Calls(self.calls, MemofKey.key).val

----------------------------------------------------------------------------
(* C22 *)

NoneSupplied == \A e \in self.cache : e.val # Supplied
AllHashable ==
    /\ \A i \in DOMAIN op.args : hash_value(op.args[i]).ok
    /\ \A n \in DOMAIN op.kwargs : hash_value(op.kwargs[n]).ok

\* C22: for every call shape that is valid for f, positional, by keyword or
\* mixed, memoize(f) called that way returns what f called that way returns,
\* on the first call and on every repeated call.
C22_SameValueAsFunction ==
    (/\ IsMemof /\ NoneSupplied /\ AllHashable
     /\ op.body = "return"
     /\ call_binds(Parameters(self.func.name), op.args, op.kwargs)) =>
        /\ out.kind = "value"
        /\ out.val = Result(self.func.name, op.args, op.kwargs)

----------------------------------------------------------------------------
(* C23 *)

\* C23: calling a memoized function with an unhashable argument raises
\* TypeError; the function is not invoked and the cache is left unchanged.
C23_UnhashableRaises ==
    [][(op'.name = "memof" /\
        (\/ \E i \in DOMAIN op'.args : ~hash_value(op'.args[i]).ok
         \/ \E n \in DOMAIN op'.kwargs : ~hash_value(op'.kwargs[n]).ok)) =>
           /\ out'.kind = "TypeError"
           /\ out'.invoked = 0
           /\ self'.cache = self.cache]_vars

----------------------------------------------------------------------------
(* C24 *)

IsMerge == op.name = "merge_sorted"

\* where the element at position n of the output comes from: the elements of
\* the inputs in the order of the claim, by key, then by sequence, then by
\* position in the sequence
Origins == {<<i, j>> : i \in 1..MaxSeqs, j \in 1..MaxSeqLen}
Elements == {o \in Origins : o[1] <= Len(self.seqs) /\ o[2] <= Len(self.seqs[o[1]])}
ElementKey(o) == apply_key(self.key, self.seqs[o[1]][o[2]])
Before(o, p) ==
    \/ ElementKey(o) < ElementKey(p)
    \/ ElementKey(o) = ElementKey(p) /\ o[1] < p[1]
    \/ ElementKey(o) = ElementKey(p) /\ o[1] = p[1] /\ o[2] < p[2]
Rank(o) == 1 + Cardinality({p \in Elements : Before(p, o)})

\* C24: for any number of input sequences, each sorted by key, merge_sorted
\* yields every element of every input exactly once in non-decreasing key
\* order, elements with equal keys coming out with those of an earlier
\* sequence first and in their original order within one sequence.
C24_StableMerge ==
    IsMerge =>
        /\ Len(out.val) = Cardinality(Elements)
        /\ \A o \in Elements : out.val[Rank(o)] = self.seqs[o[1]][o[2]]

\* three sequences, two of them holding different elements of equal key
C24_Witness ==
    /\ IsMerge /\ self.key = "floordiv3"
    /\ Len(self.seqs) = 3
    /\ \E o, p \in Elements :
          /\ o[1] < p[1] /\ ElementKey(o) = ElementKey(p)
          /\ self.seqs[o[1]][o[2]] > self.seqs[p[1]][p[2]]
    /\ Len(out.val) = Cardinality(Elements)

----------------------------------------------------------------------------
(* C25 *)

\* a dict as a value: its keys, with every nested dict written out
RECURSIVE Deep(_, _)
Deep(heap, id) ==
    [k \in DOMAIN heap[id] |->
        IF heap[id][k].tag = "ref"
        THEN [tag |-> "dict", val |-> Deep(heap, heap[id][k].val)]
        ELSE heap[id][k]]

\* func of a value
FuncOf(v) ==
    CASE v.tag = "int" -> [tag |-> "func(int)", val |-> v.val]
      [] v.tag = "dict" -> [tag |-> "func(dict)", val |-> 0]
      [] OTHER -> [tag |-> "func(None)", val |-> 0]

\* d with the value at the key path replaced by func of it, or by func of
\* the default inside new dicts where the path is missing
RECURSIVE Updated(_, _)
Updated(dv, keys) ==
    LET k == Head(keys)
    IN  IF Len(keys) = 1
        THEN SetItem(dv, k, FuncOf(IF k \in DOMAIN dv THEN dv[k] ELSE DefaultVal))
        ELSE SetItem(dv, k,
                     [tag |-> "dict",
                      val |-> Updated(IF k \in DOMAIN dv THEN dv[k].val ELSE EmptyDict,
                                      Tail(keys))])

\* every value met along the path before its last key is a dict
RECURSIVE PathThroughDicts(_, _)
PathThroughDicts(dv, keys) ==
    \/ Len(keys) <= 1
    \/ Head(keys) \notin DOMAIN dv
    \/ /\ dv[Head(keys)].tag = "dict"
       /\ PathThroughDicts(dv[Head(keys)].val, Tail(keys))

\* the call returned a dict that was not there before, no dict that was
\* there changed, and the dict returned is d updated at the path
ReturnsUpdatedCopy ==
    /\ out'.kind = "dict"
    /\ out'.obj.val \notin DOMAIN self.heap
    /\ \A id \in DOMAIN self.heap : self'.heap[id] = self.heap[id]
    /\ Deep(self'.heap, out'.obj.val) = Updated(Deep(self.heap, 1), op'.args)

\* C25, as stated: update_in(d, keys, func, default) returns a new dict and
\* leaves d and every nested dict unchanged; the result equals d except that
\* the value at the key path is func(old value) or, when the path is
\* missing, func(default) inside newly created nested dicts.
C25_ReturnsUpdatedCopy ==
    [][op'.name = "update_in" => ReturnsUpdatedCopy]_vars

\* C25, amended: the same for a non-empty key path along which every value
\* met before the last key is a dict; with an empty key path the call raises
\* StopIteration, where a number is met along the path it raises TypeError,
\* and in both cases no dict changes.
C25_ReturnsUpdatedCopyThroughDicts ==
    [][op'.name = "update_in" =>
          IF op'.args = <<>>
          THEN out'.kind = "StopIteration" /\ self'.heap = self.heap
          ELSE IF PathThroughDicts(Deep(self.heap, 1), op'.args)
          THEN ReturnsUpdatedCopy
          ELSE /\ out'.kind = "TypeError"
               /\ \A id \in DOMAIN self.heap : self'.heap[id] = self.heap[id]]_vars

\* a path of three keys whose first key leads to a dict that lacks the
\* second: one dict copied, one created, the default used
C25_Witness ==
    /\ op.name = "update_in" /\ out.kind = "dict"
    /\ Len(op.args) = 3
    /\ op.args[1] \in DOMAIN self.heap[1]
    /\ self.heap[1][op.args[1]].tag = "ref"
    /\ op.args[2] \notin DOMAIN self.heap[self.heap[1][op.args[1]].val]
    /\ LET copy == self.heap[out.obj.val][op.args[1]].val
           made == self.heap[copy][op.args[2]].val
       IN  /\ copy # self.heap[1][op.args[1]].val
           /\ self.heap[made][op.args[3]] = func_apply(DefaultVal)

----------------------------------------------------------------------------
(* C26 *)

\* the underlying call of the last call raised TypeError
CallRaisedTypeError ==
    curry_call(self, op.args, op.kwargs, op.body).exc = "TypeError"

\* C26: when the underlying call raises TypeError, the decision is taken in
\* this order: if is_partial_args of the combined arguments is False the
\* TypeError propagates, whatever the variadic status; otherwise, if the
\* variadic status is True or unknown, a new curry holding the combined
\* arguments is returned, even when the binding is complete; otherwise, if
\* is_valid_args is False, a new curry is returned; otherwise the TypeError
\* propagates.
C26_DecisionOrder ==
    (IsCall /\ CallRaisedTypeError) =>
        IF CallPartial = "False" THEN out.kind = "TypeError"
        ELSE IF has_varargs(CallFn, NoSig) # "False" THEN ReturnedCurry
        ELSE IF CallValid = "False" THEN ReturnedCurry
        ELSE out.kind = "TypeError"

\* a call of fv(a, *args, c=...) with a keyword it does not have: the
\* TypeError propagates although the callable is variadic
C26_Witness ==
    /\ IsCall /\ CallRaisedTypeError
    /\ has_varargs(CallFn, NoSig) = "True"
    /\ CallPartial = "False"
    /\ out.kind = "TypeError" /\ out.invoked = 0

----------------------------------------------------------------------------
(* C27 *)

\* the answer _should_curry gives a call made alone on the curry
AnswerAlone(t) ==
    Tri(_should_curry([self EXCEPT !.sigspec = NoSig, !.has_unknown_args = "None"],
                      out[t].args, out[t].kwargs))
\* the thread holds the cached signature and is about to read a flag that
\* has not been written
ReadsUnwrittenFlag(t) ==
    /\ out[t].pc = "decide"
    /\ self.sigspec.known
    /\ self.has_unknown_args = "None"

\* C27: when two threads make failing calls on one curry whose signature is
\* not yet cached, every interleaving of the writes of _sigspec and
\* _has_unknown_args gives each call the decision it gets when run alone,
\* and no call reads the cached signature together with a variadic flag
\* that is not yet written.
C27_DecisionAsAlone ==
    /\ \A t \in Threads : out[t].pc = "done" => out[t].answer = AnswerAlone(t)
    /\ \A t \in Threads : ~ReadsUnwrittenFlag(t)

----------------------------------------------------------------------------
(* C28 *)

\* C28: over any sequence of calls and binds on curries of one underlying
\* callable, the signature of the callable is resolved at most once: a later
\* failed call, also one on a curry that a bind or an under-filled call
\* returned, reuses the cached signature.
C28_ResolvedAtMostOnce == self.count <= 1

----------------------------------------------------------------------------
(* C29 *)

\* the curry's target was written as a module path
ByPath == IsPickle /\ op.other.func.tag = "str"
\* the object the path resolves to when the data is loaded
Resolved == Module(IF op.other.is_decorated = "True" THEN self ELSE NoObj)[op.other.func.name].obj

\* C29: when the target is serialized as a module path, loading returns the
\* module's own object, with nothing applied to it, if the serialized object
\* was the module's decorated curry itself; otherwise it returns a new curry
\* over the func of the resolved object that holds exactly the persisted
\* positional and keyword arguments.
C29_RestoreByPath ==
    ByPath =>
        IF op.other.is_decorated = "True"
        THEN out.obj = Resolved /\ ~out.fresh
        ELSE /\ out.fresh
             /\ IsCurry(out.obj)
             /\ curry_func(out.obj) = curry_func(Resolved)
             /\ curry_args(out.obj) = op.other.args
             /\ curry_keywords(out.obj) = op.other.keywords

\* a curry of the decorated function that holds arguments and is not the
\* module's object was written by path and restored
C29_Witness ==
    /\ ByPath
    /\ op.other.is_decorated = "False"
    /\ op.other.args # <<>>
    /\ curry_args(out.obj) = curry_args(self)

----------------------------------------------------------------------------
(* C30 *)

\* C30: for every finite seq, the empty one included, and every integer
\* chunksize, values below 1 clamped to 1, fold terminates: each recursive
\* level works on strictly fewer items than the one before, until a single
\* result remains and is returned.
C30_FoldTerminates ==
    /\ [][(op'.name = "recurse" /\ out'.kind = "none") =>
             Len(self'.seq) < Len(self.seq)]_vars
    /\ <>(out.kind = "value")

====
